---- MODULE Spec2Model ----
(***************************************************************************)
(* Import/merge engine of fcc-physics-events:                              *)
(*   backend/app/utils/uuid_utils.py                  (identifier)         *)
(*   backend/app/storage/database_modules/data_import.py (orchestrator,    *)
(*                                    reference resolution, merge, upsert) *)
(*                                                                         *)
(* Strings are sequences of tokens (<<"__", "status", "__lock__">> is the  *)
(* Python string "__status__lock__"), so that concatenation, joining,      *)
(* startswith and endswith are computed and not assumed.  JSON values are  *)
(* the strings of JsonValues; the database NULL / Python None of an        *)
(* integer column is NULL.                                                 *)
(***************************************************************************)
EXTENDS Integers, Sequences, FiniteSets, TLC

VARIABLES
    \* ---- import orchestrator (data_import.py) ----
    collection,        \* collection.processes: the validated records
    batch_size,        \* database.config["application"]["batch_size"]
    pc,                \* position of the import coroutine
    run,               \* which import of the collection is running (1, 2)
    batch_start,       \* loop variable of _process_entity_collection_with_recovery
    pos,               \* index (1-based) in the chunk of the record being handled
    total_processed, total_failed,
    batch_processed, batch_failed,
    processed_count, failed_count,   \* locals of _process_batch_individually
    db,                \* committed store: [main, refs]
    tx,                \* the open transaction's view of the store
    next_id,           \* serial sequence of the reference tables
    pending,           \* unique_entities still to resolve in the batch attempt
    navigation_cache,  \* cache of the current batch attempt
    foreign_key_ids,   \* result of reference resolution for the current record
    faults,            \* transient failures injected so far
    hist,              \* observations of the run (history, not program state)
    \* ---- identifier derivation (uuid_utils.py) ----
    u_in,              \* [name, pairs]: inputs of generate_dataset_uuid
    u_out,             \* identifiers derived so far
    \* ---- metadata merge on one row (data_import.py) ----
    m_row,             \* main table holding at most the row of the identity
    m_log,             \* the last import applied to the row (history)
    \* ---- concurrent callers of _get_or_create_entity ----
    g_name,            \* the name every caller passes
    g_rows,            \* rows of the reference table: [name, id, by, committed]
    g_w,               \* per caller: position, connection state, outcome
    g_next,            \* serial sequence of the reference table
    g_env,             \* what another process did to the table, if anything
    \* ---- two importers of the same record ----
    s_refs,            \* rows of the reference table
    s_main,            \* rows of the main table
    s_w,               \* per importer: position, connection state, locals
    s_next,            \* serial sequence of the reference table
    s_log,             \* the last committed write of the main row (history)
    \* ---- import entry point on raw bytes ----
    p_input,           \* shape of json_content
    p_result,          \* how import_data ended
    \* ---- bookkeeping columns of one main row (_upsert_entity) ----
    a_row,             \* the stored row of the identifier
    a_now,             \* NOW() of the open transaction
    a_log,             \* the last upsert statement executed (history)
    \* ---- one record under a navigation structure, on both paths ----
    n_in,              \* [config, schema, record]
    n_out,             \* per path, what processing the record gave
    \* ---- one JSON record through FccDataset ----
    f_data,            \* the JSON object of the record
    f_self,            \* the validated FccDataset
    f_metadata         \* what get_all_metadata returned

vars == <<collection, batch_size, pc, run, batch_start, pos, total_processed,
          total_failed, batch_processed, batch_failed, processed_count,
          failed_count, db, tx, next_id, pending, navigation_cache,
          foreign_key_ids, faults, hist, u_in, u_out, m_row, m_log,
          g_name, g_rows, g_w, g_next, g_env,
          s_refs, s_main, s_w, s_next, s_log, p_input, p_result,
          a_row, a_now, a_log, n_in, n_out,
          f_data, f_self, f_metadata>>

orchVars == <<collection, batch_size, pc, run, batch_start, pos, total_processed,
              total_failed, batch_processed, batch_failed, processed_count,
              failed_count, db, tx, next_id, pending, navigation_cache,
              foreign_key_ids, faults, hist>>
uuidVars == <<u_in, u_out>>
mergeVars == <<m_row, m_log>>
raceVars == <<g_name, g_rows, g_w, g_next, g_env>>
concVars == <<s_refs, s_main, s_w, s_next, s_log>>
parseVars == <<p_input, p_result>>
attrVars == <<a_row, a_now, a_log>>
structVars == <<n_in, n_out>>
datasetVars == <<f_data, f_self, f_metadata>>
extraVars == <<raceVars, concVars, parseVars, attrVars, structVars, datasetVars>>
otherVars == <<uuidVars, mergeVars, extraVars>>

(***************************************************************************)
(* Strings and sequences                                                   *)
(***************************************************************************)
NULL == -1

Range(s) == {s[i] : i \in 1..Len(s)}

Min(a, b) == IF a < b THEN a ELSE b

FirstN(s, n) == SubSeq(s, 1, Min(n, Len(s)))

Digit(d) == CASE d = 0 -> "0" [] d = 1 -> "1" [] d = 2 -> "2" [] d = 3 -> "3"
              [] d = 4 -> "4" [] d = 5 -> "5" [] d = 6 -> "6" [] d = 7 -> "7"
              [] d = 8 -> "8" [] d = 9 -> "9"

\* str(n) of a non-negative int
RECURSIVE Dec(_)
Dec(n) == IF n < 10 THEN <<Digit(n)>> ELSE Dec(n \div 10) \o <<Digit(n % 10)>>

\* sep.join(parts), parts a sequence of strings
RECURSIVE Join(_, _)
Join(sep, parts) ==
    IF parts = <<>> THEN <<>>
    ELSE IF Len(parts) = 1 THEN parts[1]
    ELSE parts[1] \o sep \o Join(sep, Tail(parts))

\* dict lookup in a sequence of <<key, value>> pairs (keys are distinct)
Lookup(pairs, key) ==
    LET hit == {i \in 1..Len(pairs) : pairs[i][1] = key}
    IN  IF hit = {} THEN NULL ELSE pairs[CHOOSE i \in hit : TRUE][2]

HasKey(pairs, key) == \E i \in 1..Len(pairs) : pairs[i][1] = key

\* dict assignment d[key] = value, keeping the insertion order
SetKey(pairs, key, value) ==
    IF HasKey(pairs, key)
    THEN [i \in 1..Len(pairs) |->
             IF pairs[i][1] = key THEN <<key, value>> ELSE pairs[i]]
    ELSE Append(pairs, <<key, value>>)

(***************************************************************************)
(* uuid_utils.generate_dataset_uuid                                        *)
(***************************************************************************)
FkColumns == {"accelerator_id", "campaign_id", "detector_id", "file_type_id", "stage_id"}

\* Python's order of the column names as strings
KeyRank(k) == CASE k = "accelerator_id" -> 1 [] k = "campaign_id" -> 2
                [] k = "detector_id" -> 3 [] k = "file_type_id" -> 4
                [] k = "stage_id" -> 5

\* sorted(keys)
RECURSIVE SortedKeys(_)
SortedKeys(keys) ==
    IF keys = {} THEN <<>>
    ELSE LET k == CHOOSE x \in keys : \A y \in keys : KeyRank(x) <= KeyRank(y)
         IN  <<k>> \o SortedKeys(keys \ {k})

UnsortedKeys(pairs) == [i \in 1..Len(pairs) |-> pairs[i][1]]

sorted_keys(pairs) == SortedKeys({pairs[i][1] : i \in 1..Len(pairs)})

value_str(value) == IF value # NULL THEN Dec(value) ELSE <<"0">>

foreign_key_parts(pairs) ==
    LET ks == sorted_keys(pairs)
    IN  [i \in 1..Len(ks) |-> value_str(Lookup(pairs, ks[i]))]

\* uuid_name = f"{dataset_name},{foreign_keys_str}"
uuid_name(dataset_name, pairs) ==
    dataset_name \o <<",">> \o Join(<<",">>, foreign_key_parts(pairs))

\* uuid5 under the fixed namespace is a function of uuid_name alone; the
\* identifier is represented by the string that is hashed.
generate_dataset_uuid(dataset_name, pairs) == uuid_name(dataset_name, pairs)

(***************************************************************************)
(* Reference entities (data_import.py)                                     *)
(***************************************************************************)
\* database.config["navigation"]["order"]; the field of a record and the
\* entity key coincide (field_name = entity_key)
navigation_order == <<"accelerator", "stage", "campaign", "detector", "file_type">>

\* f"{entity_key}_id"
foreign_key_column(entity_key) ==
    CASE entity_key = "accelerator" -> "accelerator_id"
      [] entity_key = "stage" -> "stage_id"
      [] entity_key = "campaign" -> "campaign_id"
      [] entity_key = "detector" -> "detector_id"
      [] entity_key = "file_type" -> "file_type_id"

\* a field of a record holds a non-blank name ("" stands for None; validated
\* records hold names already stripped)
NoName == ""
entity_name(dataset_data, field_name) == dataset_data[field_name]

\* name ILIKE $1 for names without wildcard characters
Lower(t) == CASE t = "X" -> "x" [] t = "Y" -> "y" [] t = "D" -> "d" [] OTHER -> t
ILike(a, b) == Lower(a) = Lower(b)

\* _get_or_create_entity on the connection's view `refs` of the reference
\* tables: [id, refs, next_id].  A row is [table, name, id, accelerator_id].
_get_or_create_entity(refs, nid, table_name, name, accelerator_id) ==
    LET record == {r \in refs : r.table = table_name /\ ILike(r.name, name)}
    IN  IF record # {}
        THEN [id |-> (CHOOSE r \in record : TRUE).id, refs |-> refs, next_id |-> nid]
        ELSE [id |-> nid,
              refs |-> refs \cup {[table |-> table_name, name |-> name, id |-> nid,
                                   accelerator_id |-> accelerator_id]},
              next_id |-> nid + 1]

\* the names collected record by record, a name once for every record that
\* carries it
RECURSIVE entities_per_record(_, _)
entities_per_record(batch, acc) ==
    IF batch = <<>> THEN acc
    ELSE LET d == Head(batch)
             step[i \in 0..Len(navigation_order)] ==
                 IF i = 0 THEN acc
                 ELSE LET key == navigation_order[i]
                          nm == entity_name(d, key)
                      IN  IF nm = NoName THEN step[i - 1]
                          ELSE Append(step[i - 1], <<key, {nm}>>)
         IN  entities_per_record(Tail(batch), step[Len(navigation_order)])

\* unique_entities of _preprocess_batch_navigation_entities: <<entity_key,
\* names>> in the order the keys are first met
RECURSIVE unique_entities(_, _)
unique_entities(batch, acc) ==
    IF batch = <<>> THEN acc
    ELSE LET d == Head(batch)
             step[i \in 0..Len(navigation_order)] ==
                 IF i = 0 THEN acc
                 ELSE LET key == navigation_order[i]
                          nm == entity_name(d, key)
                      IN  IF nm = NoName THEN step[i - 1]
                          ELSE IF HasKey(step[i - 1], key)
                          THEN SetKey(step[i - 1], key, Lookup(step[i - 1], key) \cup {nm})
                          ELSE SetKey(step[i - 1], key, {nm})
         IN  unique_entities(Tail(batch), step[Len(navigation_order)])

\* _get_foreign_key_ids_from_cache: the five columns of entity_key_mappings
entity_key_mappings == <<"accelerator", "stage", "campaign", "detector", "file_type">>

_get_foreign_key_ids_from_cache(dataset_data, cache) ==
    [i \in 1..Len(entity_key_mappings) |->
        LET key == entity_key_mappings[i]
            nm == entity_name(dataset_data, key)
        IN  <<foreign_key_column(key),
              IF HasKey(cache, key) /\ nm # NoName /\ HasKey(Lookup(cache, key), nm)
              THEN Lookup(Lookup(cache, key), nm)
              ELSE NULL>>]

\* _create_navigation_entities from the i-th entity key on; `fail_at` is the
\* number of the _get_or_create_entity call that raises (0: none does), the
\* except clause then leaves the loop with the keys resolved so far.
\* s is [refs, next_id, fks, calls, failed].
RECURSIVE create_navigation_from(_, _, _, _)
create_navigation_from(i, dataset_data, s, fail_at) ==
    IF i > Len(navigation_order) \/ s.failed THEN s
    ELSE LET key == navigation_order[i]
             nm == entity_name(dataset_data, key)
             acc == Lookup(s.fks, "accelerator_id")
             g == _get_or_create_entity(s.refs, s.next_id, key, nm,
                      IF key = "detector" /\ acc # NULL /\ acc # 0 THEN acc ELSE NULL)
         IN  IF nm = NoName THEN create_navigation_from(i + 1, dataset_data, s, fail_at)
             ELSE IF s.calls + 1 = fail_at
             THEN [s EXCEPT !.failed = TRUE, !.calls = @ + 1]
             ELSE create_navigation_from(i + 1, dataset_data,
                      [refs |-> g.refs, next_id |-> g.next_id,
                       fks |-> SetKey(s.fks, foreign_key_column(key), g.id),
                       calls |-> s.calls + 1, failed |-> FALSE],
                      fail_at)

_create_navigation_entities(dataset_data, refs, nid, fail_at) ==
    create_navigation_from(1, dataset_data,
        [refs |-> refs, next_id |-> nid,
         fks |-> [i \in 1..Len(navigation_order) |->
                     <<foreign_key_column(navigation_order[i]), NULL>>],
         calls |-> 0, failed |-> FALSE],
        fail_at)

\* number of reference names a record carries
NamedFields(dataset_data) ==
    Cardinality({i \in 1..Len(navigation_order) :
                    entity_name(dataset_data, navigation_order[i]) # NoName})

(***************************************************************************)
(* Specification SpecUuid: generate_dataset_uuid applied to bounded inputs *)
(***************************************************************************)
MaxKeys == 3

ColumnList == <<"accelerator_id", "stage_id", "campaign_id", "detector_id", "file_type_id">>
UuidKeys == {ColumnList[i] : i \in 1..Min(MaxKeys, Len(ColumnList))}
UuidValues == {NULL, 7, 12}
UuidNames == {<<"p">>, <<"q", "2">>}

\* every way of supplying a mapping over some of the keys: a sequence of
\* <<key, value>> pairs with distinct keys (keyword arguments)
PairSeqs(keys, values) ==
    UNION {{s \in [1..n -> keys \X values] :
               \A i, j \in 1..n : i # j => s[i][1] # s[j][1]}
           : n \in 0..Cardinality(keys)}

\* the same entries supplied in another order
Permutations_(pairs) ==
    {s \in [1..Len(pairs) -> Range(pairs)] : Range(s) = Range(pairs)}

NoOrch ==
    /\ collection = <<>> /\ batch_size = 1 /\ pc = "idle" /\ run = 1
    /\ batch_start = 0 /\ pos = 0
    /\ total_processed = 0 /\ total_failed = 0
    /\ batch_processed = 0 /\ batch_failed = 0
    /\ processed_count = 0 /\ failed_count = 0
    /\ db = [main |-> <<>>, refs |-> {}] /\ tx = [main |-> <<>>, refs |-> {}]
    /\ next_id = 1 /\ pending = <<>> /\ navigation_cache = <<>>
    /\ foreign_key_ids = <<>> /\ faults = 0
    /\ hist = <<>>

NoUuid == u_in = [name |-> <<>>, pairs |-> <<>>] /\ u_out = <<>>

NoMerge == m_row = "none" /\ m_log = <<>>

NoRace == g_name = "" /\ g_rows = {} /\ g_w = <<>> /\ g_next = 1 /\ g_env = "none"

NoConc == s_refs = {} /\ s_main = {} /\ s_w = <<>> /\ s_next = 1 /\ s_log = <<>>

NoParse == p_input = "none" /\ p_result = "none"

NoAttr == a_row = "none" /\ a_now = 0 /\ a_log = <<>>

NoStruct == n_in = "none" /\ n_out = <<>>

NoDataset == f_data = <<>> /\ f_self = <<>> /\ f_metadata = <<>>

NoExtras == NoRace /\ NoConc /\ NoParse /\ NoAttr /\ NoStruct /\ NoDataset

InitUuid ==
    /\ NoOrch /\ NoMerge /\ NoExtras
    /\ u_in \in [name : UuidNames, pairs : PairSeqs(UuidKeys, UuidValues)]
    /\ u_out = <<>>

\* one call generate_dataset_uuid(dataset_name, **foreign_key_ids); the
\* identifier is derived twice
Derive ==
    /\ Len(u_out) < 2
    /\ u_out' = Append(u_out, [pairs |-> u_in.pairs,
                               id |-> generate_dataset_uuid(u_in.name, u_in.pairs)])
    /\ UNCHANGED <<u_in, orchVars, mergeVars, extraVars>>

\* for the second derivation the caller supplies the same mapping with its
\* entries in another order
Reorder ==
    /\ Len(u_out) = 1
    /\ \E s \in Permutations_(u_in.pairs) :
          /\ s # u_in.pairs
          /\ u_in' = [u_in EXCEPT !.pairs = s]
    /\ UNCHANGED <<u_out, orchVars, mergeVars, extraVars>>

NextUuid == Derive \/ Reorder

SpecUuid == InitUuid /\ [][NextUuid]_vars

\* ---- C8 ----
\* the mapping a sequence of pairs denotes, and its values in ascending key order
EntryOf(pairs, k) == (CHOOSE i \in 1..Len(pairs) : pairs[i][1] = k)
KeysOf(pairs) == {pairs[i][1] : i \in 1..Len(pairs)}
NthKey(pairs, n) ==
    CHOOSE k \in KeysOf(pairs) :
        Cardinality({j \in KeysOf(pairs) : KeyRank(j) < KeyRank(k)}) = n - 1
RenderedAscending(pairs) ==
    [n \in 1..Len(pairs) |->
        LET v == pairs[EntryOf(pairs, NthKey(pairs, n))][2]
        IN  IF v = NULL THEN <<"0">> ELSE Dec(v)]

\* C8 (as stated): every derivation of (name, mapping) gives the same
\* identifier whatever the order of the entries, and the string hashed is the
\* name and the rendered values, in ascending key order, all joined by commas.
C8_AllJoinedByCommas ==
    \A i \in 1..Len(u_out) :
        u_out[i].id = Join(<<",">>, <<u_in.name>> \o RenderedAscending(u_out[i].pairs))

\* C8 (amended): every derivation of (name, mapping) gives the same identifier
\* whatever the order of the entries, and the string hashed is the name, a
\* comma, and then the rendered values in ascending key order joined by
\* commas; an empty mapping gives the name followed by a comma.
C8_Canonical ==
    /\ \A i, j \in 1..Len(u_out) : u_out[i].id = u_out[j].id
    /\ \A i \in 1..Len(u_out) :
          u_out[i].id = u_in.name \o <<",">>
                          \o Join(<<",">>, RenderedAscending(u_out[i].pairs))

\* two derivations of one mapping supplied in two orders, one of them not the
\* sorted one, with a null and a two-digit value
C8_Witness ==
    /\ Len(u_out) = 2
    /\ u_out[1].pairs # u_out[2].pairs
    /\ Len(u_out[1].pairs) >= 2
    /\ UnsortedKeys(u_out[1].pairs) # sorted_keys(u_out[1].pairs)
    /\ \E i \in 1..Len(u_out[1].pairs) : u_out[1].pairs[i][2] = NULL
    /\ \E i \in 1..Len(u_out[1].pairs) : u_out[1].pairs[i][2] = 12

(***************************************************************************)
(* Metadata merge policy and upsert (data_import.py)                       *)
(***************************************************************************)
JsonEmptyString == ""
JsonNull == "null"
JsonEmptyList == "[]"
JsonTrue == "true"
JsonFalse == "false"

\* bool(v) in Python
Truthy(v) == v \notin {JsonEmptyString, JsonNull, JsonEmptyList, JsonFalse}

Last(s) == s[Len(s)]

\* key.startswith("__") and key.endswith("__lock__")
IsLockKey(key) ==
    /\ key # <<>>
    /\ Head(key) \in {"__", "__lock__"}
    /\ Last(key) = "__lock__"

\* f"__{key}__lock__"
lock_field_name(key) == <<"__">> \o key \o <<"__lock__">>

NeverLocked(existing_metadata, key) == FALSE

\* existing_metadata.get(lock_field_name, False)
is_locked(existing_metadata, key) ==
    /\ lock_field_name(key) \in DOMAIN existing_metadata
    /\ Truthy(existing_metadata[lock_field_name(key)])

Restrict(f, keys) == [k \in keys |-> f[k]]

\* no value is stripped
KeepEmptyValues(metadata) == metadata

_filter_empty_metadata_values(metadata) ==
    Restrict(metadata, {k \in DOMAIN metadata :
        /\ metadata[k] # JsonEmptyString
        /\ metadata[k] # JsonNull
        /\ metadata[k] # JsonEmptyList})

\* the lock read from the incoming metadata instead of the stored one
MergeLockFromNew(existing_metadata, new_metadata) ==
    LET applied == {k \in DOMAIN new_metadata :
                       IsLockKey(k) \/ ~is_locked(new_metadata @@ existing_metadata, k)}
    IN  [k \in DOMAIN existing_metadata \cup applied |->
            IF k \in applied THEN new_metadata[k] ELSE existing_metadata[k]]

_merge_metadata_respecting_locks(existing_metadata, new_metadata) ==
    LET applied == {k \in DOMAIN new_metadata :
                       IsLockKey(k) \/ ~is_locked(existing_metadata, k)}
    IN  [k \in DOMAIN existing_metadata \cup applied |->
            IF k \in applied THEN new_metadata[k] ELSE existing_metadata[k]]

\* entity_dict["metadata"] after _merge_metadata_with_locked_fields; the row
\* is read through the connection, so `main` is the transaction's view
_merge_metadata_with_locked_fields(main, uuid, new_metadata) ==
    IF uuid \in DOMAIN main
    THEN _filter_empty_metadata_values(
             _merge_metadata_respecting_locks(main[uuid].metadata, new_metadata))
    ELSE _filter_empty_metadata_values(new_metadata)

\* COALESCE((main.metadata->'__col__lock__')::boolean, false); the cast of a
\* jsonb value that is no boolean is an error of the statement
lock_check_sql(stored_metadata, col) ==
    LET k == lock_field_name(<<col>>)
    IN  IF k \notin DOMAIN stored_metadata THEN "false"
        ELSE IF stored_metadata[k] = JsonTrue THEN "true"
        ELSE IF stored_metadata[k] = JsonFalse THEN "false"
        ELSE "error"

\* INSERT ... ON CONFLICT (uuid) DO UPDATE SET col = CASE WHEN locked THEN
\* main.col ELSE EXCLUDED.col END.  entity is [uuid, name, metadata, fks] with
\* fks the <<column, value>> pairs the caller supplies.
_upsert_entity(main, entity) ==
    LET cols == {"name", "metadata"} \cup {entity.fks[i][1] : i \in 1..Len(entity.fks)}
        old  == main[entity.uuid]
        pick(col, kept, excluded) ==
            IF lock_check_sql(old.metadata, col) = "true" THEN kept ELSE excluded
    IN  IF entity.uuid \notin DOMAIN main
        THEN [ok |-> TRUE,
              main |-> (entity.uuid :> [name |-> entity.name,
                                        metadata |-> entity.metadata,
                                        fks |-> [c \in FkColumns |-> Lookup(entity.fks, c)]])
                       @@ main]
        ELSE IF \E c \in cols : lock_check_sql(old.metadata, c) = "error"
        THEN [ok |-> FALSE, main |-> main]
        ELSE [ok |-> TRUE,
              main |-> [main EXCEPT ![entity.uuid] =
                  [name |-> pick("name", old.name, entity.name),
                   metadata |-> pick("metadata", old.metadata, entity.metadata),
                   fks |-> [c \in FkColumns |->
                               IF HasKey(entity.fks, c)
                               THEN pick(c, old.fks[c], Lookup(entity.fks, c))
                               ELSE old.fks[c]]]]]

_create_main_entity(main, name, metadata_dict, fk_pairs) ==
    LET dataset_uuid == generate_dataset_uuid(name, fk_pairs)
    IN  _upsert_entity(main,
            [uuid |-> dataset_uuid, name |-> name, fks |-> fk_pairs,
             metadata |-> _merge_metadata_with_locked_fields(main, dataset_uuid,
                                                             metadata_dict)])

(***************************************************************************)
(* Specification SpecMerge: repeated imports of one identity               *)
(***************************************************************************)
K_status == <<"status">>
K_status_lock == <<"__", "status", "__lock__">>
K_metadata_lock == <<"__", "metadata", "__lock__">>
MergeKeys == {K_status, K_status_lock, K_metadata_lock}

InputValues(k) ==
    IF k = K_status THEN {"A", "B", JsonEmptyString, JsonNull, JsonEmptyList}
    ELSE IF k = K_status_lock THEN {JsonTrue, JsonFalse, JsonEmptyString}
    ELSE {JsonTrue, JsonFalse, "A"}

\* metadata mappings a record of the fixed identity may carry
MergeInputs ==
    UNION {{f \in [ks -> UNION {InputValues(k) : k \in ks}] :
               \A k \in ks : f[k] \in InputValues(k)}
           : ks \in SUBSET MergeKeys}

MergeName == <<"p">>
MergeFks == <<<<"accelerator_id", 1>>, <<"stage_id", NULL>>, <<"campaign_id", NULL>>,
              <<"detector_id", NULL>>, <<"file_type_id", NULL>>>>
MergeUuid == generate_dataset_uuid(MergeName, MergeFks)

Stored(table) == IF MergeUuid \in DOMAIN table THEN table[MergeUuid].metadata ELSE <<>>
HasValue(md, k, v) == k \in DOMAIN md /\ md[k] = v

InitMerge ==
    /\ NoOrch /\ NoUuid /\ NoExtras
    /\ m_row = <<>>
    /\ m_log = <<>>

\* the import found __status__lock__ = true and status = "A" stored and
\* carried the lock key as false or empty
UnsetsStatusLock(table, new) ==
    /\ HasValue(Stored(table), K_status_lock, JsonTrue)
    /\ HasValue(Stored(table), K_status, "A")
    /\ K_status_lock \in DOMAIN new
    /\ new[K_status_lock] \in {JsonFalse, JsonEmptyString}

\* one automated import of a record of the identity: _create_main_entity in a
\* transaction that commits when the statement succeeds.  m_log keeps the last
\* import: what was stored before it, what it carried, whether its statement
\* succeeded, and whether the import before it was an UnsetsStatusLock one.
ImportSameIdentity ==
    \E new \in MergeInputs :
        LET r == _create_main_entity(m_row, MergeName, new, MergeFks)
        IN  /\ m_row' = r.main
            /\ m_log' = <<[before |-> Stored(m_row), new |-> new, ok |-> r.ok,
                           follows_unset |-> /\ m_log # <<>>
                                             /\ m_log[1].unset]
                                 @@ [unset |-> UnsetsStatusLock(m_row, new)]>>
            /\ UNCHANGED <<orchVars, uuidVars, extraVars>>

NextMerge == ImportSameIdentity

SpecMerge == InitMerge /\ [][NextMerge]_vars

\* ---- C9 ----
FieldOf(md, f) == IF f \in DOMAIN md THEN <<md[f]>> ELSE <<>>
LockableFields == {K_status, <<"metadata">>}

\* C9: while the stored metadata holds __f__lock__ = true, an import of the
\* same identity leaves the stored value of f, or its absence, as it was,
\* whatever the imported record carries.
C9_LockMonotonic ==
    m_log # <<>> =>
        \A f \in LockableFields :
            HasValue(m_log[1].before, lock_field_name(f), JsonTrue)
                => FieldOf(Stored(m_row), f) = FieldOf(m_log[1].before, f)

\* a committed import that carried status = "B" onto a locked status = "A"
C9_Witness ==
    /\ m_log # <<>>
    /\ m_log[1].ok
    /\ HasValue(m_log[1].before, K_status_lock, JsonTrue)
    /\ HasValue(m_log[1].before, K_status, "A")
    /\ K_metadata_lock \notin DOMAIN m_log[1].before
    /\ HasValue(m_log[1].new, K_status, "B")
    /\ HasValue(Stored(m_row), K_status, "A")

\* ---- C10 ----
MetadataColumnUnlocked(md) ==
    K_metadata_lock \in DOMAIN md => md[K_metadata_lock] = JsonFalse

IsEmptyValue(v) == v \in {JsonEmptyString, JsonNull, JsonEmptyList}

\* the lock-control keys an import carries with a non-empty value
CarriedLockKeys(new) == {k \in DOMAIN new : IsLockKey(k) /\ ~IsEmptyValue(new[k])}

\* C11: after an import of the same identity onto a stored record,
\* the stored metadata holds every lock-control key the import carried with a
\* non-empty value, with the imported value, whatever locks were stored.
C11_LockKeysAlwaysUpdatable ==
    (m_log # <<>> /\ m_log[1].before # <<>>)
        => \A k \in CarriedLockKeys(m_log[1].new) :
               HasValue(Stored(m_row), k, m_log[1].new[k])

\* What the code gives instead: incoming lock-control keys are stored when the
\* stored metadata the import finds holds no __metadata__lock__ other than
\* false; a stored __metadata__lock__ = true keeps the whole stored metadata,
\* lock-control keys included.
C11_LockKeysUpdatable ==
    /\ (/\ m_log # <<>>
        /\ m_log[1].before # <<>>
        /\ MetadataColumnUnlocked(m_log[1].before))
           => \A k \in CarriedLockKeys(m_log[1].new) :
                  HasValue(Stored(m_row), k, m_log[1].new[k])
    /\ (/\ m_log # <<>>
        /\ HasValue(m_log[1].before, K_metadata_lock, JsonTrue))
           => Stored(m_row) = m_log[1].before

\* an import carried __status__lock__ = false onto a stored, locked status
\* and the stored lock is false afterwards
C11_Witness ==
    /\ m_log # <<>>
    /\ m_log[1].ok
    /\ HasValue(m_log[1].before, K_status_lock, JsonTrue)
    /\ HasValue(m_log[1].before, K_status, "A")
    /\ HasValue(m_log[1].new, K_status_lock, JsonFalse)
    /\ HasValue(Stored(m_row), K_status_lock, JsonFalse)

\* ---- C12 ----
K_comment == <<"comment">>
K_tags == <<"tags">>
K_note == <<"note">>
K_size == <<"size">>
ExampleMetadata ==
    (K_comment :> JsonEmptyString) @@ (K_tags :> JsonEmptyList)
        @@ (K_note :> JsonNull) @@ (K_size :> "10")

\* C12: the metadata stored for the row never holds a top-level key whose
\* value is the empty string, null or the empty list, after a first insert as
\* after an update; and {comment: "", tags: [], note: null, size: 10} merged
\* into an empty record stores exactly {size: 10}.
C12_NoEmptyValuesStored ==
    /\ \A k \in DOMAIN Stored(m_row) : ~IsEmptyValue(Stored(m_row)[k])
    /\ _merge_metadata_with_locked_fields(<<>>, MergeUuid, ExampleMetadata)
           = (K_size :> "10")

\* an update carried an empty status onto a stored, unlocked status = "A":
\* the key is gone from the stored metadata
C12_Witness ==
    /\ m_log # <<>>
    /\ m_log[1].ok
    /\ HasValue(m_log[1].before, K_status, "A")
    /\ K_status \in DOMAIN m_log[1].new
    /\ IsEmptyValue(m_log[1].new[K_status])
    /\ K_status \notin DOMAIN Stored(m_row)

(***************************************************************************)
(* Batch import orchestrator (data_import.py)                              *)
(***************************************************************************)
MaxRecords == 5
MaxBatch == 5
MaxReimportRecords == 2
MaxFaults == 1
MaxNonce == 2

Rec(name, acc, det, md, bad) ==
    [process_name |-> name, accelerator |-> acc, stage |-> NoName,
     campaign |-> NoName, detector |-> det, file_type |-> NoName,
     metadata |-> md, bad |-> bad]

\* records of a validated collection: a named record, a named record that
\* violates a constraint of the main table whenever it is written, and a
\* record without process-name
GoodRecord == Rec(<<"p">>, "x", "d", (K_status :> "A"), FALSE)
BadRecord == Rec(<<"r">>, "y", NoName, (K_status :> "B"), TRUE)
UnnamedRecord == Rec(<<>>, "x", NoName, <<>>, FALSE)
Catalogue == {GoodRecord, BadRecord, UnnamedRecord}

Collections(kinds, n) == UNION {[1..k -> kinds] : k \in 0..n}

EmptyDb == [main |-> <<>>, refs |-> {}]

\* dataset_data.get_all_metadata()
get_all_metadata(dataset_data) == dataset_data.metadata

\* _generate_dataset_name: the names the call may return; the fallback name
\* embeds the clock and uuid4(), standing here for k
_generate_dataset_name(dataset_data, idx) ==
    IF dataset_data.process_name # <<>>
    THEN {dataset_data.process_name}
    ELSE {<<"unnamed_dataset_", Digit(k), "_">> \o Dec(idx) : k \in 1..MaxNonce}

\* failed_count > total_datasets / 2 with total_datasets > 0: TRUE when
\* _validate_import_success raises
RaisesAtHalf(processed, failed) ==
    processed + failed > 0 /\ 2 * failed >= processed + failed

_validate_import_success(processed, failed) ==
    processed + failed > 0 /\ 2 * failed > processed + failed

AlwaysFallBack(processed, failed) == TRUE

\* if batch_failed > 0 and batch_processed == 0
needs_fallback(processed, failed) == failed > 0 /\ processed = 0

batch_end == Min(batch_start + batch_size, Len(collection))
Batch == SubSeq(collection, batch_start + 1, batch_end)
Current == Batch[pos]
Idx == batch_start + pos - 1
CanFault == faults < MaxFaults

NewChunk ==
    [start |-> batch_start, n |-> Len(Batch), db_before |-> db, batch |-> <<>>,
     batch_tried |-> <<>>, fallback |-> FALSE, tried |-> <<>>, kept |-> {},
     uuid |-> <<>>, indiv |-> <<>>, faults_before |-> faults,
     total_before |-> <<total_processed, total_failed>>]

InitOrch(colls, runs) ==
    /\ collection \in colls
    \* a batch size above the collection's length gives the same single chunk
    /\ batch_size \in 1..Min(MaxBatch, Len(collection) + 1)
    /\ pc = "start" /\ run = 1
    /\ batch_start = 0 /\ pos = 0
    /\ total_processed = 0 /\ total_failed = 0
    /\ batch_processed = 0 /\ batch_failed = 0
    /\ processed_count = 0 /\ failed_count = 0
    /\ db = EmptyDb /\ tx = EmptyDb
    /\ next_id = 1 /\ pending = <<>> /\ navigation_cache = <<>>
    /\ foreign_key_ids = <<>> /\ faults = 0
    /\ hist = [runs |-> runs, start_db |-> EmptyDb, chunk |-> <<>>, chunks |-> <<>>,
               first |-> <<>>]

Init ==
    InitOrch(Collections({GoodRecord, BadRecord}, MaxRecords), 1)
        /\ NoUuid /\ NoMerge /\ NoExtras

\* import_data up to the call of _process_entity_collection_with_recovery
StartImport ==
    /\ pc = "start"
    /\ pc' = "chunk"
    /\ batch_start' = 0 /\ total_processed' = 0 /\ total_failed' = 0
    /\ hist' = [hist EXCEPT !.start_db = db, !.chunks = <<>>, !.chunk = <<>>]
    /\ UNCHANGED <<collection, batch_size, run, pos, batch_processed, batch_failed,
                   processed_count, failed_count, db, tx, next_id, pending,
                   navigation_cache, foreign_key_ids, faults, otherVars>>

\* for batch_start in range(0, len(datasets), batch_size): one more chunk
BeginChunk ==
    /\ pc = "chunk" /\ batch_start < Len(collection)
    /\ pc' = "batch_open" /\ pos' = 1
    /\ hist' = [hist EXCEPT !.chunk = NewChunk]
    /\ UNCHANGED <<collection, batch_size, run, batch_start, total_processed,
                   total_failed, batch_processed, batch_failed, processed_count,
                   failed_count, db, tx, next_id, pending, navigation_cache,
                   foreign_key_ids, faults, otherVars>>

\* the loop is exhausted: return total_processed, total_failed
LoopDone ==
    /\ pc = "chunk" /\ batch_start >= Len(collection)
    /\ pc' = "validate"
    /\ UNCHANGED <<collection, batch_size, run, batch_start, pos, total_processed,
                   total_failed, batch_processed, batch_failed, processed_count,
                   failed_count, db, tx, next_id, pending, navigation_cache,
                   foreign_key_ids, faults, hist, otherVars>>

config == <<collection, batch_size, run>>
totals == <<total_processed, total_failed>>
locals == <<processed_count, failed_count>>

\* the writes of the open transaction reach the store although it failed
LeakWrites == db' = tx /\ tx' = tx

\* leaving `async with conn.transaction()` by an exception
Rollback == tx' = db /\ db' = db

\* the main rows are committed without the reference rows of their
\* transaction
CommitMainOnly == db' = [db EXCEPT !.main = tx.main] /\ tx' = tx

\* leaving `async with conn.transaction()` normally
Commit == db' = tx /\ tx' = tx

\* the exception of the batch attempt leaves import_data
BatchEscapes ==
    /\ Rollback
    /\ batch_processed' = 0 /\ batch_failed' = 0
    /\ pending' = <<>> /\ navigation_cache' = <<>>
    /\ pc' = "escaped"

\* except Exception: return 0, len(batch)
BatchFails ==
    /\ Rollback
    /\ batch_processed' = 0 /\ batch_failed' = Len(Batch)
    /\ pending' = <<>> /\ navigation_cache' = <<>>
    /\ pc' = "batch_ret"

\* the records are processed while names of the chunk are still unresolved
BatchOpenSkipsResolution ==
    /\ pc = "batch_open"
    /\ tx' = db
    /\ pending' = unique_entities(Batch, <<>>)
    /\ navigation_cache' = <<>>
    /\ pc' = "batch_rec"
    /\ UNCHANGED <<collection, batch_size, run, batch_start, pos, total_processed,
                   total_failed, batch_processed, batch_failed, processed_count,
                   failed_count, db, next_id, foreign_key_ids, faults, hist,
                   otherVars>>

\* async with database.session() as conn, conn.transaction(), and the names
\* _preprocess_batch_navigation_entities collects from the chunk
BatchOpen ==
    /\ pc = "batch_open"
    /\ tx' = db
    /\ pending' = unique_entities(Batch, <<>>)
    /\ navigation_cache' = <<>>
    /\ pc' = IF pending' = <<>> THEN "batch_rec" ELSE "batch_pre"
    /\ UNCHANGED <<config, batch_start, pos, totals, batch_processed, batch_failed,
                   locals, db, next_id, foreign_key_ids, faults, hist, otherVars>>

BatchOpenFails ==
    /\ pc = "batch_open" /\ CanFault
    /\ faults' = faults + 1
    /\ BatchFails
    /\ UNCHANGED <<config, batch_start, pos, totals, locals, next_id,
                   foreign_key_ids, hist, otherVars>>

\* one _get_or_create_entity of the pre-resolution loop: the first entity key
\* that has names left, any of its names (a Python set has no stated order)
BatchResolve ==
    /\ pc = "batch_pre"
    /\ LET key == pending[1][1]
           names == pending[1][2]
       IN  \E nm \in names :
             LET g == _get_or_create_entity(tx.refs, next_id, key, nm, NULL)
                 known == IF HasKey(navigation_cache, key)
                          THEN Lookup(navigation_cache, key) ELSE <<>>
             IN  /\ tx' = [tx EXCEPT !.refs = g.refs]
                 /\ next_id' = g.next_id
                 /\ navigation_cache' =
                        SetKey(navigation_cache, key, SetKey(known, nm, g.id))
                 /\ pending' = IF names = {nm} THEN Tail(pending)
                               ELSE SetKey(pending, key, names \ {nm})
    /\ pc' = IF pending' = <<>> THEN "batch_rec" ELSE "batch_pre"
    /\ UNCHANGED <<config, batch_start, pos, totals, batch_processed, batch_failed,
                   locals, db, foreign_key_ids, faults, hist, otherVars>>

BatchResolveFails ==
    /\ pc = "batch_pre" /\ CanFault
    /\ faults' = faults + 1
    /\ BatchFails
    /\ UNCHANGED <<config, batch_start, pos, totals, locals, next_id,
                   foreign_key_ids, hist, otherVars>>

\* _process_single_entity for the record at pos; the statement raises for a
\* record that violates a constraint and when a lock check cannot be cast
BatchRecord ==
    /\ pc = "batch_rec"
    /\ \E name \in _generate_dataset_name(Current, Idx) :
         LET fks == _get_foreign_key_ids_from_cache(Current, navigation_cache)
             r == _create_main_entity(tx.main, name, get_all_metadata(Current), fks)
         IN  /\ hist' = [hist EXCEPT !.chunk.batch_tried = Append(@, pos)]
             /\ IF Current.bad \/ ~r.ok
                THEN /\ BatchFails
                     /\ UNCHANGED pos
                ELSE /\ tx' = [tx EXCEPT !.main = r.main]
                     /\ pos' = IF pos < Len(Batch) THEN pos + 1 ELSE pos
                     /\ pc' = IF pos < Len(Batch) THEN "batch_rec" ELSE "batch_commit"
                     /\ UNCHANGED <<db, batch_processed, batch_failed, pending,
                                    navigation_cache>>
    /\ UNCHANGED <<config, batch_start, totals, locals, next_id, foreign_key_ids,
                   faults, otherVars>>

\* a transient error of the record's statements
BatchRecordFails ==
    /\ pc = "batch_rec" /\ CanFault
    /\ faults' = faults + 1
    /\ hist' = [hist EXCEPT !.chunk.batch_tried = Append(@, pos)]
    /\ BatchFails
    /\ UNCHANGED <<config, batch_start, pos, totals, locals, next_id,
                   foreign_key_ids, otherVars>>

\* return len(batch), 0 and the commit on leaving the transaction block
BatchCommit ==
    /\ pc = "batch_commit"
    /\ Commit
    /\ batch_processed' = Len(Batch) /\ batch_failed' = 0
    /\ navigation_cache' = <<>>
    /\ pc' = "batch_ret"
    /\ UNCHANGED <<config, batch_start, pos, totals, locals, next_id, pending,
                   foreign_key_ids, faults, hist, otherVars>>

BatchCommitFails ==
    /\ pc = "batch_commit" /\ CanFault
    /\ faults' = faults + 1
    /\ BatchFails
    /\ UNCHANGED <<config, batch_start, pos, totals, locals, next_id,
                   foreign_key_ids, hist, otherVars>>

\* the batch attempt returned and the chunk needs no fallback
BatchKept ==
    /\ pc = "batch_ret"
    /\ ~needs_fallback(batch_processed, batch_failed)
    /\ hist' = [hist EXCEPT !.chunk.batch = <<batch_processed, batch_failed>>]
    /\ pc' = "chunk_end"
    /\ UNCHANGED <<config, batch_start, pos, totals, batch_processed, batch_failed,
                   locals, db, tx, next_id, pending, navigation_cache,
                   foreign_key_ids, faults, otherVars>>

\* the batch attempt returned and _process_batch_individually is entered
FallBack ==
    /\ pc = "batch_ret"
    /\ needs_fallback(batch_processed, batch_failed)
    /\ hist' = [hist EXCEPT !.chunk.batch = <<batch_processed, batch_failed>>,
                            !.chunk.fallback = TRUE]
    /\ processed_count' = 0 /\ failed_count' = 0
    /\ pos' = 1
    /\ pc' = "indiv_open"
    /\ UNCHANGED <<config, batch_start, totals, batch_processed, batch_failed,
                   db, tx, next_id, pending, navigation_cache, foreign_key_ids,
                   faults, otherVars>>

\* the loop of _process_batch_individually goes on with the counts given:
\* the next record, or return processed_count, failed_count to the caller,
\* which assigns them to batch_processed, batch_failed
NextRecord(processed, failed) ==
    /\ processed_count' = processed /\ failed_count' = failed
    /\ IF pos < Len(Batch)
       THEN /\ pos' = pos + 1
            /\ pc' = "indiv_open"
            /\ UNCHANGED <<batch_processed, batch_failed>>
       ELSE /\ pc' = "chunk_end"
            /\ batch_processed' = processed /\ batch_failed' = failed
            /\ UNCHANGED pos

\* the pass is given up at the first record that fails
AbortOnFailure(processed, failed) ==
    /\ Rollback
    /\ processed_count' = processed /\ failed_count' = failed + 1
    /\ batch_processed' = processed /\ batch_failed' = failed + 1
    /\ pc' = "chunk_end"
    /\ UNCHANGED pos

\* except Exception: failed_count += 1, and the loop goes on
RecordFails(processed, failed) ==
    /\ Rollback
    /\ NextRecord(processed, failed + 1)

\* the record's own session and transaction
IndivOpen ==
    /\ pc = "indiv_open"
    /\ tx' = db
    /\ hist' = [hist EXCEPT !.chunk.tried = Append(@, pos)]
    /\ pc' = "indiv_resolve"
    /\ UNCHANGED <<config, batch_start, pos, totals, batch_processed, batch_failed,
                   locals, db, next_id, pending, navigation_cache, foreign_key_ids,
                   faults, otherVars>>

IndivOpenFails ==
    /\ pc = "indiv_open" /\ CanFault
    /\ faults' = faults + 1
    /\ hist' = [hist EXCEPT !.chunk.tried = Append(@, pos)]
    /\ RecordFails(processed_count, failed_count)
    /\ UNCHANGED <<config, batch_start, totals, next_id, pending, navigation_cache,
                   foreign_key_ids, otherVars>>

\* _create_navigation_entities with every reference resolved
IndivResolve ==
    /\ pc = "indiv_resolve"
    /\ LET r == _create_navigation_entities(Current, tx.refs, next_id, 0)
       IN  /\ tx' = [tx EXCEPT !.refs = r.refs]
           /\ next_id' = r.next_id
           /\ foreign_key_ids' = r.fks
    /\ pc' = "indiv_upsert"
    /\ UNCHANGED <<config, batch_start, pos, totals, batch_processed, batch_failed,
                   locals, db, pending, navigation_cache, faults, hist, otherVars>>

\* _create_navigation_entities when one _get_or_create_entity raises without
\* a failed statement (the model of the new row is rejected, the insert
\* returns no identifier): the except clause logs and returns the keys
\* resolved before it
IndivResolveDegraded ==
    /\ pc = "indiv_resolve" /\ CanFault
    /\ \E fail_at \in 1..NamedFields(Current) :
         LET r == _create_navigation_entities(Current, tx.refs, next_id, fail_at)
         IN  /\ tx' = [tx EXCEPT !.refs = r.refs]
             /\ next_id' = r.next_id
             /\ foreign_key_ids' = r.fks
    /\ faults' = faults + 1
    /\ pc' = "indiv_upsert"
    /\ UNCHANGED <<config, batch_start, pos, totals, batch_processed, batch_failed,
                   locals, db, pending, navigation_cache, hist, otherVars>>

\* _create_navigation_entities when a statement of _get_or_create_entity
\* raises inside the record's transaction block: the except clause logs and
\* returns, but the transaction is aborted, so the SELECT of
\* _merge_metadata_with_locked_fields raises and the record fails
IndivResolveAborts ==
    /\ pc = "indiv_resolve" /\ CanFault
    /\ faults' = faults + 1
    /\ RecordFails(processed_count, failed_count)
    /\ UNCHANGED <<config, batch_start, totals, next_id, pending, navigation_cache,
                   foreign_key_ids, hist, otherVars>>

\* the rest of _process_single_dataset, then processed_count += 1
IndivUpsert ==
    /\ pc = "indiv_upsert"
    /\ \E name \in _generate_dataset_name(Current, Idx) :
         LET r == _create_main_entity(tx.main, name, get_all_metadata(Current),
                                      foreign_key_ids)
         IN  IF Current.bad \/ ~r.ok
             THEN /\ RecordFails(processed_count, failed_count)
                  /\ UNCHANGED hist
             ELSE /\ tx' = [tx EXCEPT !.main = r.main]
                  /\ hist' = [hist EXCEPT !.chunk.uuid =
                                  generate_dataset_uuid(name, foreign_key_ids)]
                  /\ processed_count' = processed_count + 1
                  /\ pc' = "indiv_commit"
                  /\ UNCHANGED <<db, pos, failed_count, batch_processed, batch_failed>>
    /\ UNCHANGED <<config, batch_start, totals, next_id, pending, navigation_cache,
                   foreign_key_ids, faults, otherVars>>

IndivUpsertFails ==
    /\ pc = "indiv_upsert" /\ CanFault
    /\ faults' = faults + 1
    /\ RecordFails(processed_count, failed_count)
    /\ UNCHANGED <<config, batch_start, totals, next_id, pending, navigation_cache,
                   foreign_key_ids, hist, otherVars>>

\* the commit on leaving the record's transaction block
IndivCommit ==
    /\ pc = "indiv_commit"
    /\ Commit
    /\ hist' = [hist EXCEPT !.chunk.kept = @ \cup {hist.chunk.uuid}]
    /\ NextRecord(processed_count, failed_count)
    /\ UNCHANGED <<config, batch_start, totals, next_id, pending, navigation_cache,
                   foreign_key_ids, faults, otherVars>>

\* the commit raises: processed_count was already incremented
IndivCommitFails ==
    /\ pc = "indiv_commit" /\ CanFault
    /\ faults' = faults + 1
    /\ RecordFails(processed_count, failed_count)
    /\ UNCHANGED <<config, batch_start, totals, next_id, pending, navigation_cache,
                   foreign_key_ids, hist, otherVars>>

\* the fallback's counts added to those of the failed batch attempt
SumBoth(processed, failed) ==
    /\ total_processed' = total_processed + processed
           + (IF hist.chunk.fallback THEN hist.chunk.batch[1] ELSE 0)
    /\ total_failed' = total_failed + failed
           + (IF hist.chunk.fallback THEN hist.chunk.batch[2] ELSE 0)

\* total_processed += batch_processed; total_failed += batch_failed
AddToTotals(processed, failed) ==
    /\ total_processed' = total_processed + processed
    /\ total_failed' = total_failed + failed

\* the next chunk starts one record after the start of this one
EndChunkOverlapping ==
    /\ pc = "chunk_end"
    /\ AddToTotals(batch_processed, batch_failed)
    /\ LET finished == [hist.chunk EXCEPT
                            !.indiv = IF hist.chunk.fallback
                                      THEN <<processed_count, failed_count>>
                                      ELSE <<>>]
                        @@ [total_after |-> <<total_processed', total_failed'>>,
                            db_after |-> db, faults_after |-> faults]
       IN  hist' = [hist EXCEPT !.chunk = finished, !.chunks = Append(@, finished)]
    /\ batch_start' = batch_start + 1
    /\ pc' = "chunk"
    /\ UNCHANGED <<config, pos, batch_processed, batch_failed, locals, db, tx,
                   next_id, pending, navigation_cache, foreign_key_ids, faults,
                   otherVars>>

\* the chunk's counts are added and the loop takes the next chunk
EndChunk ==
    /\ pc = "chunk_end"
    /\ AddToTotals(batch_processed, batch_failed)
    /\ LET finished == [hist.chunk EXCEPT
                            !.indiv = IF hist.chunk.fallback
                                      THEN <<processed_count, failed_count>>
                                      ELSE <<>>]
                        @@ [total_after |-> <<total_processed', total_failed'>>,
                            db_after |-> db, faults_after |-> faults]
       IN  hist' = [hist EXCEPT !.chunk = finished, !.chunks = Append(@, finished)]
    /\ batch_start' = batch_start + batch_size
    /\ pc' = "chunk"
    /\ UNCHANGED <<config, pos, batch_processed, batch_failed, locals, db, tx,
                   next_id, pending, navigation_cache, foreign_key_ids, faults,
                   otherVars>>

\* the failure undoes what the import committed
RaiseAndUndo ==
    /\ pc = "validate"
    /\ _validate_import_success(total_processed, total_failed)
    /\ pc' = "raised"
    /\ db' = hist.start_db /\ tx' = hist.start_db
    /\ UNCHANGED <<config, batch_start, pos, totals, batch_processed, batch_failed,
                   locals, next_id, pending, navigation_cache,
                   foreign_key_ids, faults, hist, otherVars>>

\* _validate_import_success raises RuntimeError
ValidateRaises ==
    /\ pc = "validate"
    /\ _validate_import_success(total_processed, total_failed)
    /\ pc' = "raised"
    /\ UNCHANGED <<config, batch_start, pos, totals, batch_processed, batch_failed,
                   locals, db, tx, next_id, pending, navigation_cache,
                   foreign_key_ids, faults, hist, otherVars>>

\* "Import operation completed successfully"
ImportCompletes ==
    /\ pc = "validate"
    /\ ~_validate_import_success(total_processed, total_failed)
    /\ pc' = "done"
    /\ UNCHANGED <<config, batch_start, pos, totals, batch_processed, batch_failed,
                   locals, db, tx, next_id, pending, navigation_cache,
                   foreign_key_ids, faults, hist, otherVars>>

ImportStep ==
    \/ StartImport \/ BeginChunk \/ LoopDone
    \/ BatchOpen \/ BatchOpenFails \/ BatchResolve \/ BatchResolveFails
    \/ BatchRecord \/ BatchRecordFails \/ BatchCommit \/ BatchCommitFails
    \/ BatchKept \/ FallBack
    \/ IndivOpen \/ IndivOpenFails \/ IndivResolve \/ IndivResolveDegraded
    \/ IndivResolveAborts
    \/ IndivUpsert \/ IndivUpsertFails \/ IndivCommit \/ IndivCommitFails
    \/ EndChunk \/ ValidateRaises \/ ImportCompletes

Next == ImportStep

Spec == Init /\ [][Next]_vars

(***************************************************************************)
(* Properties of the orchestrator                                          *)
(***************************************************************************)
ChunkRecords(c) == SubSeq(collection, c.start + 1, c.start + c.n)
BadCount(recs) == Cardinality({i \in 1..Len(recs) : recs[i].bad})
FirstBad(recs) ==
    IF BadCount(recs) = 0 THEN Len(recs)
    ELSE CHOOSE i \in 1..Len(recs) : recs[i].bad /\ \A j \in 1..(i - 1) : ~recs[j].bad
UpTo(n) == [i \in 1..n |-> i]
Added(c) == <<c.total_after[1] - c.total_before[1], c.total_after[2] - c.total_before[2]>>
Finished == {hist.chunks[i] : i \in 1..Len(hist.chunks)}
InChunk == pc \in {"batch_open", "batch_pre", "batch_rec", "batch_commit", "batch_ret",
                   "indiv_open", "indiv_resolve", "indiv_upsert", "indiv_commit",
                   "chunk_end"}
HasRow(store, rec) == \E u \in DOMAIN store.main : store.main[u].name = rec.process_name

\* ---- C1 ----
\* C1: a chunk whose batch attempt failed adds to the totals exactly the
\* counts of its individual pass, the (0, N) of the batch attempt being
\* replaced; a 5-record chunk with one constraint-violating record and no
\* other failure adds (4, 1).
C1_FallbackCountsReplace ==
    \A c \in Finished :
        /\ c.fallback => (c.batch = <<0, c.n>> /\ Added(c) = c.indiv)
        /\ (/\ c.n = 5
            /\ BadCount(ChunkRecords(c)) = 1
            /\ c.faults_after = c.faults_before) => Added(c) = <<4, 1>>

C1_Witness ==
    \E c \in Finished :
        /\ c.n = 5 /\ BadCount(ChunkRecords(c)) = 1 /\ ChunkRecords(c)[3].bad
        /\ c.faults_after = c.faults_before
        /\ c.batch = <<0, 5>> /\ c.indiv = <<4, 1>> /\ Added(c) = <<4, 1>>

\* ---- C2 ----
\* C2: when the batch attempt has returned, either it failed, the store is as
\* it was before the attempt, no record after the failing one was processed
\* and the result is (0, len(chunk)); or every record of the chunk was
\* processed, all are committed and the result is (len(chunk), 0).
C2_BatchAllOrNothing ==
    pc = "batch_ret" =>
        LET c == hist.chunk
        IN  \/ /\ batch_processed = 0 /\ batch_failed = c.n
               /\ db = c.db_before
               /\ Len(c.batch_tried) <= FirstBad(Batch)
               /\ c.batch_tried = UpTo(Len(c.batch_tried))
            \/ /\ batch_processed = c.n /\ batch_failed = 0
               /\ c.batch_tried = UpTo(c.n)
               /\ BadCount(Batch) = 0
               /\ \A i \in 1..c.n : HasRow(db, Batch[i])

\* the attempt failed at its third record, after two records and their
\* reference rows had been written in the transaction
C2_Witness ==
    /\ pc = "batch_ret"
    /\ batch_failed = 3 /\ batch_processed = 0
    /\ Batch[3].bad /\ ~Batch[1].bad /\ ~Batch[2].bad
    /\ hist.chunk.batch_tried = <<1, 2, 3>>
    /\ faults = 0
    /\ db = EmptyDb

\* ---- C3 ----
\* C3: the individual pass attempts every record of the chunk, in chunk
\* order, each in a transaction of its own; a failing record is counted and
\* the pass goes on, and what earlier records of the pass committed stays.
C3_IndividualPass ==
    /\ (InChunk /\ hist.chunk.fallback) =>
          /\ hist.chunk.kept \subseteq DOMAIN db.main
          /\ hist.chunk.tried \in {UpTo(pos), UpTo(pos - 1)}
          /\ failed_count <= Len(hist.chunk.tried)
    /\ (pc = "chunk_end" /\ hist.chunk.fallback) =>
          /\ hist.chunk.tried = UpTo(Len(Batch))
          /\ failed_count >= BadCount(Batch)
          /\ \A i \in 1..Len(Batch) :
                (~Batch[i].bad /\ faults = hist.chunk.faults_before) => HasRow(db, Batch[i])

\* a pass over good, bad, good: the bad one is counted, the other two are
\* committed
C3_Witness ==
    /\ pc = "chunk_end" /\ hist.chunk.fallback
    /\ Len(Batch) = 3 /\ ~Batch[1].bad /\ Batch[2].bad /\ ~Batch[3].bad
    /\ faults = 0
    /\ processed_count = 2 /\ failed_count = 1
    /\ hist.chunk.tried = <<1, 2, 3>>
    /\ HasRow(db, Batch[1]) /\ HasRow(db, Batch[3])

\* ---- C4 ----
\* C4: a chunk gets the individual pass exactly when its batch attempt
\* returned failed > 0 and processed = 0; a chunk whose batch attempt
\* committed is never processed record by record, and a chunk whose batch
\* attempt failed has had its whole pass when the next chunk starts.
C4_FallbackIff ==
    /\ \A c \in Finished :
          /\ c.fallback <=> (c.batch[2] > 0 /\ c.batch[1] = 0)
          /\ c.batch = <<c.n, 0>> => c.tried = <<>>
          /\ c.batch[2] > 0 => c.tried = UpTo(c.n)
    /\ (InChunk /\ hist.chunk.tried # <<>>) => hist.chunk.batch = <<0, hist.chunk.n>>
    /\ pc \in {"batch_open", "batch_pre", "batch_rec", "batch_commit"} =>
          /\ Len(hist.chunks) * batch_size = batch_start
          /\ hist.chunk.tried = <<>>

\* one import with a chunk that fell back and a chunk that did not
C4_Witness ==
    /\ Len(hist.chunks) = 2
    /\ hist.chunks[1].fallback /\ hist.chunks[1].batch = <<0, 2>>
    /\ hist.chunks[1].tried = <<1, 2>>
    /\ ~hist.chunks[2].fallback /\ hist.chunks[2].batch = <<2, 0>>

\* ---- C5 ----
AllChunksDone ==
    /\ batch_start >= Len(collection)
    /\ Len(hist.chunks) * batch_size >= Len(collection)

\* C5: the import raises only when all chunks are done, and then exactly when
\* failed > (processed + failed) / 2 with processed + failed > 0; 6 failures
\* of 10 raise, 5 of 10 do not, and an import of no record does not raise.
C5_Threshold ==
    /\ pc = "raised" =>
          /\ AllChunksDone
          /\ total_processed + total_failed > 0
          /\ total_failed >= ((total_processed + total_failed) \div 2) + 1
    /\ pc = "done" =>
          /\ AllChunksDone
          /\ \/ total_processed + total_failed = 0
             \/ total_failed <= (total_processed + total_failed) \div 2
    /\ (Len(collection) = 0 /\ pc \in {"validate", "raised", "done"}) => pc # "raised"
    /\ _validate_import_success(4, 6)
    /\ ~_validate_import_success(5, 5)
    /\ ~_validate_import_success(0, 0)

\* an import of four records in two chunks, exactly half of them failed, that
\* completed
C5_Witness ==
    /\ pc = "done"
    /\ Len(collection) = 4 /\ batch_size = 2
    /\ total_processed = 2 /\ total_failed = 2

\* ---- C6 ----
\* C6: when the threshold failure has been raised the store is what the
\* import's chunks committed: every row committed by a batch attempt or by
\* an individual transaction is there as it was after the last chunk.
C6_RaiseKeepsCommitted ==
    pc = "raised" =>
        /\ db = hist.chunks[Len(hist.chunks)].db_after
        /\ \A c \in Finished :
              /\ c.kept \subseteq DOMAIN db.main
              /\ c.batch = <<c.n, 0>> =>
                    \A i \in 1..c.n : HasRow(db, ChunkRecords(c)[i])

\* raised with a row committed by a batch attempt and a row committed by an
\* individual transaction
C6_Witness ==
    /\ pc = "raised"
    /\ \E c \in Finished : c.batch = <<c.n, 0>>
    /\ \E c \in Finished : c.kept # {}
    /\ db.main # <<>> /\ db.refs # {}

\* ---- C16 ----
\* the positions of import_data between its call and its end
ImportPositions ==
    {"start", "chunk", "validate"} \cup
    {"batch_open", "batch_pre", "batch_rec", "batch_commit", "batch_ret",
     "indiv_open", "indiv_resolve", "indiv_upsert", "indiv_commit", "chunk_end"}

\* ceil(len(datasets) / batch_size)
ChunkCount == (Len(collection) + batch_size - 1) \div batch_size

\* C16: whatever sessions, transactions, reference resolutions and upserts
\* fail, the import goes through every chunk and ends either by returning or
\* by the threshold failure of _validate_import_success; no other exception
\* leaves the import entry point.
C16_OnlyThresholdEscapes ==
    /\ pc \in ImportPositions \cup {"done", "raised"}
    /\ pc \in {"validate", "done", "raised"}
          => (batch_start >= Len(collection) /\ Len(hist.chunks) = ChunkCount)
    /\ pc = "raised" => _validate_import_success(total_processed, total_failed)
    /\ pc = "done" => ~_validate_import_success(total_processed, total_failed)

\* an import that met a transient failure and a record violating a
\* constraint, went back to individual processing and returned normally
C16_Witness ==
    /\ pc = "done"
    /\ faults > 0
    /\ total_failed > 0 /\ total_processed > 0
    /\ \E c \in Finished : c.fallback

\* ---- C19 ----
\* a step in which resolving or creating a reference entity fails
ResolutionFails ==
    /\ pc \in {"batch_pre", "indiv_resolve"}
    /\ faults' = faults + 1

AllForeignKeysNull(fks) == \A i \in DOMAIN fks : fks[i][2] = NULL

\* C19: whenever the resolution of a reference entity fails, in the batch
\* attempt as well as in the individual fallback, the record goes on to its
\* upsert inside the same transaction with null in every foreign-key column.
C19_ResolutionFailureDegrades ==
    [][ResolutionFails =>
            /\ pc' \in {"batch_rec", "indiv_upsert"}
            /\ tx'.main = tx.main
            /\ pc' = "indiv_upsert" => AllForeignKeysNull(foreign_key_ids')
            /\ pc' = "batch_rec" => navigation_cache' = <<>>]_vars

\* What the code gives instead: the batch attempt is abandoned, and the
\* individual path either fails the record or goes on with the keys that
\* were resolved before the failure.
C19_ResolutionFailureOutcomes ==
    [][ResolutionFails =>
            \/ pc = "batch_pre" /\ pc' = "batch_ret" /\ batch_failed' = Len(Batch)
            \/ pc = "indiv_resolve" /\ failed_count' = failed_count + 1
            \/ pc = "indiv_resolve" /\ pc' = "indiv_upsert"]_vars

(***************************************************************************)
(* Specification SpecReimport: the collection is imported twice            *)
(***************************************************************************)
InitReimport ==
    InitOrch(Collections(Catalogue, MaxReimportRecords), 2)
        /\ NoUuid /\ NoMerge /\ NoExtras

\* the caller calls import_data again with the same content
ReImport ==
    /\ pc \in {"done", "raised"} /\ run < hist.runs
    /\ run' = run + 1
    /\ pc' = "start"
    /\ hist' = [hist EXCEPT !.first = [ids |-> DOMAIN db.main, faults |-> faults]]
    /\ UNCHANGED <<collection, batch_size, batch_start, pos, totals, batch_processed,
                   batch_failed, locals, db, tx, next_id, pending, navigation_cache,
                   foreign_key_ids, faults, otherVars>>

NextReimport == ImportStep \/ ReImport

SpecReimport == InitReimport /\ [][NextReimport]_vars

SecondImportOver == run = 2 /\ pc \in {"done", "raised"}
AllNamed == \A i \in 1..Len(collection) : collection[i].process_name # <<>>

\* ---- C7 ----
\* C7: when a collection has been imported twice the main table holds the
\* identifiers it held after the first import, and no others (stated for the
\* imports in which no transient failure occurs).
C7_IdempotentReimport ==
    (SecondImportOver /\ faults = 0) => DOMAIN db.main = hist.first.ids

(***************************************************************************)
(* Specification SpecRace: concurrent callers of _get_or_create_entity     *)
(* with the same table and the same name.  Each caller holds its own       *)
(* connection.  The import calls the function inside `async with           *)
(* conn.transaction()` (data_import.py lines 133 and 165); a caller may    *)
(* also pass a connection outside a transaction block, each statement then *)
(* commits on its own.  PostgreSQL semantics of the statements:            *)
(*  - a statement sees the committed rows and the rows of its transaction; *)
(*  - an INSERT whose name is held by an uncommitted row of another        *)
(*    transaction waits for that transaction to end;                       *)
(*  - an INSERT whose name is held by a committed row raises               *)
(*    UniqueViolationError (reference tables have a unique name);          *)
(*  - after a statement raised inside a transaction block, every further   *)
(*    statement of the block raises InFailedSQLTransactionError.           *)
(***************************************************************************)
MaxWriters == 2

Writers == 1..MaxWriters
raceIdle == <<orchVars, uuidVars, mergeVars, concVars, parseVars, attrVars, structVars,
              datasetVars>>
RaceNames == {"d", NoName}

Caller(in_tx) ==
    [pc |-> "call", in_tx |-> in_tx, aborted |-> FALSE, ret |-> NULL,
     raised |-> "", ended |-> "", via |-> ""]

InitRace ==
    /\ NoOrch /\ NoUuid /\ NoMerge /\ NoConc /\ NoParse /\ NoAttr /\ NoStruct
    /\ NoDataset
    /\ g_name \in RaceNames
    /\ g_rows = {}
    /\ g_w \in [Writers -> {Caller(t) : t \in BOOLEAN}]
    /\ g_next = 1
    /\ g_env = "none"

\* the rows a statement of caller w sees
Visible(rows, w) == {r \in rows : r.committed \/ r.by = w}

\* conn.fetchrow(query, name): SELECT id FROM table WHERE name ILIKE $1
fetchrow(rows, w, name) == {r \in Visible(rows, w) : ILike(r.name, name)}

\* the unique name is held by a committed row / by an open transaction
HeldCommitted(rows, name) == \E r \in rows : r.name = name /\ r.committed
HeldOpen(rows, w, name) == \E r \in rows : r.name = name /\ ~r.committed /\ r.by # w

\* the lookup without the check of the name
SelectWithoutNameCheck(w) ==
    /\ g_w[w].pc = "call"
    /\ LET record == fetchrow(g_rows, w, g_name)
       IN  IF record # {}
           THEN g_w' = [g_w EXCEPT ![w].pc = "returned", ![w].via = "lookup",
                                   ![w].ret = (CHOOSE r \in record : TRUE).id]
           ELSE g_w' = [g_w EXCEPT ![w].pc = "insert"]
    /\ UNCHANGED <<g_name, g_rows, g_next, g_env, raceIdle>>

\* name = kwargs.get("name"); if not name: raise ValueError; the lookup;
\* if record: return int(record[id_column])
SelectByName(w) ==
    /\ g_w[w].pc = "call"
    /\ IF g_name = NoName
       THEN g_w' = [g_w EXCEPT ![w].pc = "raised", ![w].raised = "ValueError"]
       ELSE LET record == fetchrow(g_rows, w, g_name)
            IN  IF record # {}
                THEN g_w' = [g_w EXCEPT ![w].pc = "returned", ![w].via = "lookup",
                                        ![w].ret = (CHOOSE r \in record : TRUE).id]
                ELSE g_w' = [g_w EXCEPT ![w].pc = "insert"]
    /\ UNCHANGED <<g_name, g_rows, g_next, g_env, raceIdle>>

\* new_id = await conn.fetchval(insert_query, ...): the row is inserted and
\* its identifier returned, or the statement raises UniqueViolationError; the
\* sequence advances in both cases
InsertRow(w) ==
    /\ g_w[w].pc = "insert"
    /\ ~HeldOpen(g_rows, w, g_name)
    /\ g_next' = g_next + 1
    /\ IF HeldCommitted(g_rows, g_name)
       THEN /\ g_w' = [g_w EXCEPT ![w].pc = "requery", ![w].aborted = g_w[w].in_tx]
            /\ UNCHANGED g_rows
       ELSE /\ g_rows' = g_rows \cup {[name |-> g_name, id |-> g_next, by |-> w,
                                      committed |-> ~g_w[w].in_tx]}
            /\ g_w' = [g_w EXCEPT ![w].pc = "returned", ![w].via = "insert",
                                  ![w].ret = g_next]
    /\ UNCHANGED <<g_name, g_env, raceIdle>>

\* if new_id is None: raise RuntimeError; the statement returned no row (the
\* table has a rule or trigger that suppresses the insert)
InsertReturnsNone(w) ==
    /\ g_w[w].pc = "insert"
    /\ g_env = "none"
    /\ ~HeldOpen(g_rows, w, g_name) /\ ~HeldCommitted(g_rows, g_name)
    /\ g_env' = "suppressed"
    /\ g_w' = [g_w EXCEPT ![w].pc = "raised", ![w].raised = "RuntimeError: create"]
    /\ UNCHANGED <<g_name, g_rows, g_next, raceIdle>>

\* except asyncpg.UniqueViolationError: record = await conn.fetchrow(query,
\* name); if record: return ...; raise RuntimeError
Requery(w) ==
    /\ g_w[w].pc = "requery"
    /\ LET record == fetchrow(g_rows, w, g_name)
       IN  IF g_w[w].aborted
           THEN g_w' = [g_w EXCEPT ![w].pc = "raised",
                                   ![w].raised = "InFailedSQLTransactionError"]
           ELSE IF record # {}
           THEN g_w' = [g_w EXCEPT ![w].pc = "returned", ![w].via = "requery",
                                   ![w].ret = (CHOOSE r \in record : TRUE).id]
           ELSE g_w' = [g_w EXCEPT ![w].pc = "raised",
                                   ![w].raised = "RuntimeError: find"]
    /\ UNCHANGED <<g_name, g_rows, g_next, g_env, raceIdle>>

\* the caller's transaction block is left normally
CommitTx(w) ==
    /\ g_w[w].pc = "returned" /\ g_w[w].in_tx
    /\ g_rows' = {IF r.by = w THEN [r EXCEPT !.committed = TRUE] ELSE r : r \in g_rows}
    /\ g_w' = [g_w EXCEPT ![w].pc = "done", ![w].ended = "commit"]
    /\ UNCHANGED <<g_name, g_next, g_env, raceIdle>>

\* the caller's transaction block is left by an exception: the one the call
\* raised, or a later one of the caller
RollbackTx(w) ==
    /\ g_w[w].pc \in {"returned", "raised"} /\ g_w[w].in_tx
    /\ g_rows' = {r \in g_rows : r.committed \/ r.by # w}
    /\ g_w' = [g_w EXCEPT ![w].pc = "done", ![w].ended = "rollback"]
    /\ UNCHANGED <<g_name, g_next, g_env, raceIdle>>

\* another process deletes a committed row of the table
RowDeleted ==
    /\ g_env = "none"
    /\ \E r \in g_rows :
          /\ r.committed
          /\ g_rows' = g_rows \ {r}
    /\ g_env' = "deleted"
    /\ UNCHANGED <<g_name, g_w, g_next, raceIdle>>

NextRace ==
    \/ \E w \in Writers : SelectByName(w)
    \/ \E w \in Writers : InsertRow(w)
    \/ \E w \in Writers : InsertReturnsNone(w)
    \/ \E w \in Writers : Requery(w)
    \/ \E w \in Writers : CommitTx(w)
    \/ \E w \in Writers : RollbackTx(w)
    \/ RowDeleted

SpecRace == InitRace /\ [][NextRace]_vars

\* ---- C13 ----
\* the call of w is over, and so is its transaction
Over(w) == g_w[w].pc \in {"returned", "raised", "done"}
Settled(w) == IF g_w[w].in_tx THEN g_w[w].pc = "done" ELSE Over(w)
Returned(w) == Over(w) /\ g_w[w].raised = ""

\* C13: when two or more callers of getOrCreate with the same table and name
\* have finished (nothing else touched the table, and no caller that got an
\* identifier rolled back), every call returned, all calls returned the same
\* identifier, the table holds exactly one row of that name, and no caller
\* saw an exception.
C13_CreateRaceTolerated ==
    (/\ g_w # <<>>
     /\ g_name # NoName
     /\ g_env = "none"
     /\ \A w \in Writers : Settled(w)
     /\ \A w \in Writers : Returned(w) => g_w[w].ended # "rollback")
        => /\ \A w \in Writers : Returned(w)
           /\ \A v, w \in Writers : g_w[v].ret = g_w[w].ret
           /\ Cardinality({r \in g_rows : r.name = g_name}) = 1

\* What the code gives instead: the race is absorbed for callers outside a
\* transaction block only.
C13_ToleratedOutsideTransactions ==
    (/\ g_w # <<>>
     /\ g_name # NoName
     /\ g_env = "none"
     /\ \A w \in Writers : ~g_w[w].in_tx /\ Over(w))
        => /\ \A w \in Writers : Returned(w)
           /\ \A v, w \in Writers : g_w[v].ret = g_w[w].ret
           /\ Cardinality({r \in g_rows : r.name = g_name}) = 1

MaxParsedRecords == 2

\* what json_content holds: bytes that are no JSON, a JSON value that is no
\* object, an object without "processes", an object whose "processes" is no
\* list, a list that DatasetCollection rejects, a valid collection
Shapes == {"undecodable", "not_object", "no_processes", "processes_not_list",
           "invalid_records", "collection"}

SkipMarker == "skipping incompatible format"

\* the exception raised inside the try of _parse_json_content, if any
RaisedInside(shape) ==
    CASE shape = "undecodable" -> [type |-> "JSONDecodeError", message |-> <<"Expecting value">>]
      [] shape = "not_object" ->
             [type |-> "ValueError", message |-> <<"JSON root must be an object">>]
      [] shape = "no_processes" ->
             [type |-> "ValueError",
              message |-> <<"JSON does not contain 'processes' key - ", SkipMarker>>]
      [] shape = "processes_not_list" ->
             [type |-> "ValueError",
              message |-> <<"'processes' value must be a list - ", SkipMarker>>]
      [] shape = "invalid_records" ->
             [type |-> "ValidationError", message |-> <<"validation error for DatasetCollection">>]
      [] shape = "collection" -> [type |-> "", message |-> <<>>]

\* the cause is left out of the message
WrapWithoutCause(e) ==
    IF e.type = "JSONDecodeError" THEN <<"Invalid JSON format">>
    ELSE <<"Invalid data format">>

\* except json.JSONDecodeError: raise ValueError("Invalid JSON format");
\* except Exception as e: raise ValueError(f"Invalid data format: {e}")
Wrap(e) ==
    IF e.type = "JSONDecodeError" THEN <<"Invalid JSON format">>
    ELSE <<"Invalid data format: ">> \o e.message

\* _parse_json_content: the collection is returned, or ValueError(message)
_parse_json_content(shape) ==
    LET e == RaisedInside(shape)
    IN  IF e.type = "" THEN [ok |-> TRUE, message |-> <<>>]
        ELSE [ok |-> FALSE, message |-> Wrap(e)]

\* "skipping incompatible format" in str(e)
Contains(message, part) == \E i \in 1..Len(message) : message[i] = part

InitParse ==
    /\ NoUuid /\ NoMerge /\ NoRace /\ NoConc /\ NoAttr /\ NoStruct /\ NoDataset
    /\ p_input \in Shapes
    /\ p_result = "none"
    /\ collection \in (IF p_input = "collection"
                       THEN Collections({GoodRecord, BadRecord}, MaxParsedRecords)
                       ELSE {<<>>})
    /\ batch_size \in 1..Min(MaxBatch, Len(collection) + 1)
    /\ pc = "idle" /\ run = 1
    /\ batch_start = 0 /\ pos = 0
    /\ total_processed = 0 /\ total_failed = 0
    /\ batch_processed = 0 /\ batch_failed = 0
    /\ processed_count = 0 /\ failed_count = 0
    /\ db = EmptyDb /\ tx = EmptyDb
    /\ next_id = 1 /\ pending = <<>> /\ navigation_cache = <<>>
    /\ foreign_key_ids = <<>> /\ faults = 0
    /\ hist = [runs |-> 1, start_db |-> EmptyDb, chunk |-> <<>>, chunks |-> <<>>,
               first |-> <<>>]

\* import_data, lines 26-36: the collection is parsed, or the import returns
\* at once, or the ValueError is raised again
ParseContent ==
    /\ pc = "idle" /\ p_result = "none"
    /\ LET r == _parse_json_content(p_input)
       IN  IF r.ok
           THEN p_result' = "parsed" /\ pc' = "start"
           ELSE IF Contains(r.message, SkipMarker)
           THEN p_result' = "skipped" /\ pc' = pc
           ELSE p_result' = "raised" /\ pc' = pc
    /\ UNCHANGED <<config, batch_start, pos, totals, batch_processed, batch_failed,
                   locals, db, tx, next_id, pending, navigation_cache,
                   foreign_key_ids, faults, hist, p_input,
                   uuidVars, mergeVars, raceVars, concVars, attrVars, structVars,
                   datasetVars>>

NextParse == ParseContent \/ ImportStep

SpecParse == InitParse /\ [][NextParse]_vars

\* ---- C15 ----
SkippedShapes == {"no_processes", "processes_not_list"}

\* C15: when the top-level input is an object without "processes", or one
\* whose "processes" is no list, the import ends without raising, without a
\* session or transaction and without a record counted as processed or
\* failed; the import processes records after a successful parse only.
C15_FormatSkip ==
    /\ (p_input \in SkippedShapes /\ p_result # "none")
          => /\ p_result = "skipped"
             /\ pc = "idle"
             /\ db = EmptyDb /\ tx = EmptyDb /\ faults = 0
             /\ total_processed = 0 /\ total_failed = 0
             /\ hist.chunks = <<>> /\ hist.chunk = <<>>
    /\ p_result = "skipped" => p_input \in SkippedShapes
    /\ (p_input # "none" /\ pc # "idle") => p_result = "parsed"

\* the import of an object whose "processes" is no list has ended
C15_Witness ==
    /\ p_input = "processes_not_list"
    /\ p_result = "skipped"

(***************************************************************************)
(* Specification SpecConc: two importers, each in its own process and on   *)
(* its own connection, process the same record (same logical name, same    *)
(* accelerator name, each with its own metadata).  One importer goes       *)
(* through the statements of a batch attempt on a chunk holding the record *)
(* and, when that attempt fails, of the individual attempt; an importer    *)
(* may also start in the individual attempt (the batch attempt of its      *)
(* chunk failed on another record).  Statements follow the PostgreSQL      *)
(* semantics stated for SpecRace; an upsert whose identifier is being      *)
(* written by an open transaction waits for that transaction to end.       *)
(***************************************************************************)
Importers == {1, 2}

ConcName == <<"p">>
ConcAccelerator == "x"

K_lock_true == (K_status :> "A") @@ (K_status_lock :> JsonTrue)

\* the metadata an importer's record carries
ConcInputs == {(K_status :> "B"), K_lock_true}

\* the five foreign keys of the record, the accelerator resolved to fk
ConcFks(fk) ==
    [i \in 1..Len(navigation_order) |->
        <<foreign_key_column(navigation_order[i]), IF i = 1 THEN fk ELSE NULL>>]

ConcUuid(fk) == generate_dataset_uuid(ConcName, ConcFks(fk))

\* the store before the importers start: empty, or holding the accelerator
\* and the record's row
StoredBefore ==
    {[refs |-> {}, main |-> <<>>, next |-> 1]} \cup
    {[refs |-> {[name |-> ConcAccelerator, id |-> 1, by |-> 0, committed |-> TRUE]},
      main |-> <<[uuid |-> ConcUuid(1), name |-> ConcName, metadata |-> md]>>,
      next |-> 2] : md \in {(K_status :> "A"), K_lock_true}}

Importer(attempt, new) ==
    [pc |-> "begin", attempt |-> attempt, aborted |-> FALSE, fk |-> NULL,
     read |-> <<>>, write |-> <<>>, new |-> new, result |-> ""]

InitConc ==
    /\ NoOrch /\ NoUuid /\ NoMerge /\ NoRace /\ NoParse /\ NoAttr /\ NoStruct
    /\ NoDataset
    /\ \E st \in StoredBefore :
          s_refs = st.refs /\ s_main = st.main /\ s_next = st.next
    /\ s_w \in [Importers -> {Importer(a, n) : a \in {"batch", "indiv"}, n \in ConcInputs}]
    /\ s_log = <<>>

concIdle == <<orchVars, uuidVars, mergeVars, raceVars, parseVars, attrVars, structVars,
              datasetVars>>

\* the committed row of the main table with this identifier, if any
StoredRow(main, uuid) == {i \in 1..Len(main) : main[i].uuid = uuid}

\* INSERT without conflict arbitration: the row is added
AppendWrite(main, write) == Append(main, write)

\* INSERT ... ON CONFLICT (uuid) DO UPDATE: the row with the identifier is
\* replaced, or the row is added
ApplyWrite(main, write) ==
    IF StoredRow(main, write.uuid) # {}
    THEN [i \in 1..Len(main) |-> IF main[i].uuid = write.uuid THEN write ELSE main[i]]
    ELSE Append(main, write)

\* the transaction block of importer w is left by an exception: the batch
\* attempt returns (0, len(batch)) and the individual attempt follows; the
\* individual attempt counts the record as failed
Fails(w) ==
    /\ s_refs' = {r \in s_refs : r.committed \/ r.by # w}
    /\ s_w' = [s_w EXCEPT ![w] =
                   IF s_w[w].attempt = "batch"
                   THEN Importer("indiv", s_w[w].new)
                   ELSE [s_w[w] EXCEPT !.pc = "ended", !.result = "failed",
                                       !.write = <<>>]]

\* async with database.session() as conn, conn.transaction()
Begin(w) ==
    /\ s_w[w].pc = "begin"
    /\ s_w' = [s_w EXCEPT ![w].pc = "lookup"]
    /\ UNCHANGED <<s_refs, s_main, s_next, s_log, concIdle>>

\* _get_or_create_entity for the accelerator: the lookup
RefLookup(w) ==
    /\ s_w[w].pc = "lookup"
    /\ LET record == fetchrow(s_refs, w, ConcAccelerator)
       IN  IF record # {}
           THEN s_w' = [s_w EXCEPT ![w].pc = "read",
                                   ![w].fk = (CHOOSE r \in record : TRUE).id]
           ELSE s_w' = [s_w EXCEPT ![w].pc = "insert"]
    /\ UNCHANGED <<s_refs, s_main, s_next, s_log, concIdle>>

\* _get_or_create_entity for the accelerator: the insert
RefInsert(w) ==
    /\ s_w[w].pc = "insert"
    /\ ~HeldOpen(s_refs, w, ConcAccelerator)
    /\ s_next' = s_next + 1
    /\ IF HeldCommitted(s_refs, ConcAccelerator)
       THEN /\ s_w' = [s_w EXCEPT ![w].pc = "requery", ![w].aborted = TRUE]
            /\ UNCHANGED s_refs
       ELSE /\ s_refs' = s_refs \cup {[name |-> ConcAccelerator, id |-> s_next,
                                      by |-> w, committed |-> FALSE]}
            /\ s_w' = [s_w EXCEPT ![w].pc = "read", ![w].fk = s_next]
    /\ UNCHANGED <<s_main, s_log, concIdle>>

\* _get_or_create_entity for the accelerator: the re-query raises in the
\* aborted transaction; _preprocess_batch_navigation_entities lets the
\* exception through, _create_navigation_entities catches it
RefRequery(w) ==
    /\ s_w[w].pc = "requery"
    /\ IF s_w[w].attempt = "batch"
       THEN Fails(w)
       ELSE s_w' = [s_w EXCEPT ![w].pc = "read"] /\ UNCHANGED s_refs
    /\ UNCHANGED <<s_main, s_next, s_log, concIdle>>

\* _merge_metadata_with_locked_fields: SELECT metadata ... WHERE uuid = $1
ReadMetadata(w) ==
    /\ s_w[w].pc = "read"
    /\ IF s_w[w].aborted
       THEN Fails(w)
       ELSE LET found == StoredRow(s_main, ConcUuid(s_w[w].fk))
            IN  /\ s_w' = [s_w EXCEPT ![w].pc = "upsert",
                               ![w].read = IF found = {} THEN <<>>
                                           ELSE <<s_main[CHOOSE i \in found : TRUE].metadata>>]
                /\ UNCHANGED s_refs
    /\ UNCHANGED <<s_main, s_next, s_log, concIdle>>

\* the open transaction of importer v has written the row of the identifier
WrittenBy(v, uuid) == s_w[v].write # <<>> /\ s_w[v].write[1].uuid = uuid

\* the in-memory merge of _merge_metadata_with_locked_fields on what was
\* read, then the statement of _upsert_entity on what is stored now
Upsert(w) ==
    /\ s_w[w].pc = "upsert"
    /\ LET uuid == ConcUuid(s_w[w].fk)
           merged == IF s_w[w].read # <<>>
                     THEN _filter_empty_metadata_values(
                              _merge_metadata_respecting_locks(s_w[w].read[1], s_w[w].new))
                     ELSE _filter_empty_metadata_values(s_w[w].new)
           found == StoredRow(s_main, uuid)
           old == s_main[CHOOSE i \in found : TRUE]
       IN  /\ ~\E v \in Importers \ {w} : WrittenBy(v, uuid)
           /\ IF found # {} /\ lock_check_sql(old.metadata, "metadata") = "error"
              THEN Fails(w)
              ELSE /\ s_w' = [s_w EXCEPT ![w].pc = "commit",
                                 ![w].write =
                                     <<[uuid |-> uuid, name |-> ConcName,
                                        metadata |->
                                            IF found # {}
                                               /\ lock_check_sql(old.metadata, "metadata") = "true"
                                            THEN old.metadata ELSE merged]>>]
                   /\ UNCHANGED s_refs
    /\ UNCHANGED <<s_main, s_next, s_log, concIdle>>

\* the transaction block is left normally: the writes are committed
CommitWrites(w) ==
    /\ s_w[w].pc = "commit"
    /\ LET found == StoredRow(s_main, s_w[w].write[1].uuid)
       IN  s_log' = <<[by |-> w, new |-> s_w[w].new, read |-> s_w[w].read,
                       before |-> IF found = {} THEN <<>>
                                  ELSE <<s_main[CHOOSE i \in found : TRUE].metadata>>,
                       after |-> s_w[w].write[1].metadata]>>
    /\ s_main' = ApplyWrite(s_main, s_w[w].write[1])
    /\ s_refs' = {IF r.by = w THEN [r EXCEPT !.committed = TRUE] ELSE r : r \in s_refs}
    /\ s_w' = [s_w EXCEPT ![w].pc = "ended", ![w].result = "processed",
                          ![w].write = <<>>]
    /\ UNCHANGED <<s_next, concIdle>>

NextConc ==
    \/ \E w \in Importers : Begin(w)
    \/ \E w \in Importers : RefLookup(w)
    \/ \E w \in Importers : RefInsert(w)
    \/ \E w \in Importers : RefRequery(w)
    \/ \E w \in Importers : ReadMetadata(w)
    \/ \E w \in Importers : Upsert(w)
    \/ \E w \in Importers : CommitWrites(w)

SpecConc == InitConc /\ [][NextConc]_vars

\* ---- C17 ----
\* the committed write found the lock of status stored as true and did not
\* carry the lock-control key itself
WroteOntoLock(l) ==
    /\ l.before # <<>>
    /\ HasValue(l.before[1], K_status_lock, JsonTrue)
    /\ K_status_lock \notin DOMAIN l.new

\* C17: whatever the interleaving of the two importers' reads and upserts, a
\* field whose lock-control key is committed as true when an importer's upsert
\* executes keeps its value and its lock after that upsert.
C17_LockSurvivesConcurrentWrite ==
    s_log # <<>> =>
        LET l == s_log[1]
        IN  WroteOntoLock(l)
                => /\ HasValue(l.after, K_status_lock, JsonTrue)
                   /\ FieldOf(l.after, K_status) = FieldOf(l.before[1], K_status)

\* What the code gives instead: the lock is kept by a write whose read of the
\* stored metadata was still current when its upsert executed.
C17_LockSurvivesCurrentRead ==
    s_log # <<>> =>
        LET l == s_log[1]
        IN  (WroteOntoLock(l) /\ l.read = l.before)
                => /\ HasValue(l.after, K_status_lock, JsonTrue)
                   /\ FieldOf(l.after, K_status) = FieldOf(l.before[1], K_status)

\* ---- C18 ----
AllEnded == s_w # <<>> /\ \A w \in Importers : s_w[w].pc = "ended"

\* C18: the main table never holds two rows of one identifier, and when both
\* importers of the record have ended it holds exactly one row for the
\* record, no application-level lock having been taken.
C18_NoDuplicateMainRows ==
    /\ \A i, j \in 1..Len(s_main) : s_main[i].uuid = s_main[j].uuid => i = j
    /\ Len(s_main) <= 1
    /\ AllEnded => (Len(s_main) = 1 /\ \E w \in Importers : s_w[w].result = "processed")

\* both importers started on empty tables and both processed the record: the
\* second write found the row of the first
C18_Witness ==
    /\ AllEnded
    /\ \A w \in Importers : s_w[w].result = "processed"
    /\ \E r \in s_refs : r.by \in Importers
    /\ s_log # <<>> /\ s_log[1].before # <<>>
    /\ Len(s_main) = 1

(***************************************************************************)
(* One detector name under two accelerators                                *)
(***************************************************************************)
MaxScopedRecords == 2

\* a record naming the detector of GoodRecord under another accelerator
OtherAcceleratorRecord == Rec(<<"q">>, "y", "d", (K_status :> "A"), FALSE)

InitScoped ==
    InitOrch(Collections({GoodRecord, OtherAcceleratorRecord, BadRecord},
                         MaxScopedRecords), 1)
        /\ NoUuid /\ NoMerge /\ NoExtras

NextScoped == ImportStep

SpecScoped == InitScoped /\ [][NextScoped]_vars

\* two committed main rows under two different accelerators, both with a
\* detector
TwoAccelerators(a, b) ==
    /\ a.fks["accelerator_id"] # NULL /\ b.fks["accelerator_id"] # NULL
    /\ a.fks["accelerator_id"] # b.fks["accelerator_id"]
    /\ a.fks["detector_id"] # NULL /\ b.fks["detector_id"] # NULL

\* C20: two records that name the same detector under two different
\* accelerators resolve to two distinct detector rows, on the batch path and
\* on the individual path.
C20_DetectorScopedByAccelerator ==
    \A u, v \in DOMAIN db.main :
        TwoAccelerators(db.main[u], db.main[v])
            => db.main[u].fks["detector_id"] # db.main[v].fks["detector_id"]

\* What the code gives instead: a detector row is found by its name alone,
\* so the detectors table never holds two rows of one name.
C20_DetectorFoundByName ==
    \A r, q \in db.refs :
        (r.table = "detector" /\ q.table = "detector" /\ ILike(r.name, q.name))
            => r = q

\* ---- C21 ----
\* the records of the chunk that name the detector of row r
NamingRecords(r) ==
    {i \in 1..Len(Batch) : Batch[i].detector # NoName /\ ILike(Batch[i].detector, r.name)}

\* C21: in the batch pre-resolution step every detector row that is created
\* holds the identifier of the accelerator named by a record that names the
\* detector, whenever such a record names an accelerator.
C21_BatchDetectorHoldsAccelerator ==
    [][pc = "batch_pre" =>
          \A r \in tx'.refs \ tx.refs :
              (r.table = "detector"
                  /\ \E i \in NamingRecords(r) : Batch[i].accelerator # NoName)
              => \E i \in NamingRecords(r), a \in tx'.refs :
                    /\ a.table = "accelerator"
                    /\ ILike(a.name, Batch[i].accelerator)
                    /\ r.accelerator_id = a.id]_vars

\* What the code gives instead: the pre-resolution step passes the name
\* alone, so the detector rows it creates hold no accelerator.
C21_BatchDetectorWithoutAccelerator ==
    [][pc = "batch_pre" =>
          \A r \in tx'.refs \ tx.refs : r.accelerator_id = NULL]_vars

\* ---- C22 ----
\* the (category, name) pairs of a chunk, of the names still to resolve and
\* of a navigation cache
DistinctPairs(batch) ==
    {<<navigation_order[k], entity_name(batch[i], navigation_order[k])>> :
        i \in 1..Len(batch), k \in 1..Len(navigation_order)}
      \ {<<navigation_order[k], NoName>> : k \in 1..Len(navigation_order)}

CachedPairs(cache) ==
    UNION {{<<cache[i][1], cache[i][2][j][1]>> : j \in 1..Len(cache[i][2])} :
              i \in 1..Len(cache)}

\* C22: in one batch attempt every call of the pre-resolution step resolves
\* a (category, name) pair of the chunk that no earlier call of the attempt
\* resolved, the records are processed with every pair of the chunk
\* resolved, and processing a record issues no reference lookup or create.
C22_ReferenceDedup ==
    [][/\ (pc = "batch_pre" /\ pc' \in {"batch_pre", "batch_rec"})
            => \E p \in DistinctPairs(Batch) \ CachedPairs(navigation_cache) :
                  CachedPairs(navigation_cache') = CachedPairs(navigation_cache) \cup {p}
       /\ (pc = "batch_rec")
            => /\ CachedPairs(navigation_cache) = DistinctPairs(Batch)
               /\ pc' \in {"batch_rec", "batch_commit"}
                     => /\ tx'.refs = tx.refs
                        /\ next_id' = next_id
                        /\ navigation_cache' = navigation_cache]_vars

\* the second record of a chunk is processed from a cache that holds fewer
\* pairs than the chunk's records carry names
C22_Witness ==
    /\ pc = "batch_rec" /\ pos = 2 /\ Len(Batch) = 2
    /\ Batch[1].accelerator = Batch[2].accelerator
    /\ Batch[1].detector # NoName /\ Batch[1].detector = Batch[2].detector
    /\ Cardinality(CachedPairs(navigation_cache)) = 2
    /\ Cardinality(tx.refs) = 2

\* ---- C23 ----
\* the identifiers of the rows of a reference table
IdsOf(refs, table_name) == {r.id : r \in {q \in refs : q.table = table_name}}

\* every foreign key of the row is null or names a row of the view `refs`
ForeignKeysVisible(row, refs) ==
    \A k \in 1..Len(navigation_order) :
        LET c == foreign_key_column(navigation_order[k])
        IN  row.fks[c] = NULL \/ row.fks[c] \in IdsOf(refs, navigation_order[k])

\* a main-entity upsert of a batch attempt or of an individual attempt
UpsertIssued ==
    \/ pc = "batch_rec" /\ pc' \in {"batch_rec", "batch_commit"}
    \/ pc = "indiv_upsert" /\ pc' = "indiv_commit"

\* C23: in every batch attempt and every individual attempt a reference row
\* is created only in the resolution step, before any record of the attempt
\* was given to the upsert, and an upsert is issued with no name of the
\* attempt left to resolve, leaves the reference tables alone and writes
\* only foreign keys that its own transaction sees.
C23_ResolutionBeforeUpsert ==
    [][/\ (tx'.refs \ tx.refs # {})
            => /\ pc \in {"batch_pre", "indiv_resolve"}
               /\ tx'.main = tx.main
               /\ pc = "batch_pre" => hist.chunk.batch_tried = <<>>
       /\ UpsertIssued
            => /\ pending = <<>>
               /\ tx'.refs = tx.refs
               /\ \A u \in DOMAIN tx'.main : ForeignKeysVisible(tx'.main[u], tx.refs)]_vars

\* a batch attempt of two records wrote a row whose detector its own
\* pre-resolution created
C23_Witness ==
    /\ pc = "batch_commit" /\ Len(Batch) = 2
    /\ \E u \in DOMAIN tx.main \ DOMAIN db.main :
          /\ tx.main[u].fks["detector_id"] # NULL
          /\ tx.main[u].fks["detector_id"] \notin IdsOf(db.refs, "detector")

(***************************************************************************)
(* Bookkeeping columns of the upsert (data_import.py, _upsert_entity)      *)
(***************************************************************************)
MaxClock == 2

\* user_info: None, an empty dict, or a dict with some of its keys
NoUserInfo == [given |-> FALSE, fields |-> <<>>]
UserInfos ==
    {NoUserInfo,
     [given |-> TRUE, fields |-> <<>>],
     [given |-> TRUE, fields |-> ("name" :> <<"a">>)],
     [given |-> TRUE, fields |-> ("name" :> <<"o", "'", "k">>)],
     [given |-> TRUE, fields |-> ("email" :> <<"e">>)]}

\* `if user_info:` is false for None and for an empty dict
UserInfoTruthy(user_info) == user_info.given /\ DOMAIN user_info.fields # {}

\* user_info["name"].replace("'", "''")
RECURSIVE EscapeQuotes(_)
EscapeQuotes(t) ==
    IF t = <<>> THEN <<>>
    ELSE IF Head(t) = "'" THEN <<"'", "'">> \o EscapeQuotes(Tail(t))
    ELSE <<Head(t)>> \o EscapeQuotes(Tail(t))

\* the value of the SQL string literal '...' with this body: a doubled quote
\* stands for one quote
RECURSIVE LiteralValue(_)
LiteralValue(t) ==
    IF t = <<>> THEN <<>>
    ELSE IF Len(t) >= 2 /\ t[1] = "'" /\ t[2] = "'"
    THEN <<"'">> \o LiteralValue(Tail(Tail(t)))
    ELSE <<Head(t)>> \o LiteralValue(Tail(t))

\* the columns of the statement other than uuid
StatementColumns(entity) ==
    {"name", "metadata"} \cup {entity.fks[i][1] : i \in 1..Len(entity.fks)}

\* attribution is refreshed whatever the locks are
AttributionIgnoresLocks(stored_metadata, cols) == TRUE

\* any_unlocked_sql: NOT lock_check OR NOT lock_check ... over the columns
any_unlocked_sql(stored_metadata, cols) ==
    \E col \in cols : lock_check_sql(stored_metadata, col) = "false"

AttrUuid == <<"p">>
LockOf(col) == lock_field_name(<<col>>)

\* stored metadata: lock-control keys of the columns name, metadata and
\* accelerator_id, true, false, no boolean, or absent
AttrStoredMetadata ==
    {Restrict((LockOf("name") :> n) @@ (LockOf("metadata") :> JsonTrue)
                  @@ (LockOf("accelerator_id") :> JsonTrue), keys) :
        n \in {JsonTrue, JsonFalse, "1"},
        keys \in SUBSET {LockOf("name"), LockOf("metadata"), LockOf("accelerator_id")}}

\* the entities written: with and without a foreign-key column, with
\* metadata that sets every lock or none
AttrEntities ==
    {[uuid |-> AttrUuid, name |-> nm, metadata |-> md, fks |-> fk] :
        nm \in {<<"q">>},
        md \in {(K_status :> "B"),
                (LockOf("name") :> JsonTrue) @@ (LockOf("metadata") :> JsonTrue)
                    @@ (LockOf("accelerator_id") :> JsonTrue)},
        fk \in {<<>>, <<<<"accelerator_id", 1>>>>}}

InitAttr ==
    /\ NoOrch /\ NoUuid /\ NoMerge /\ NoRace /\ NoConc /\ NoParse /\ NoStruct
    /\ NoDataset
    /\ a_row \in {[name |-> <<"p">>, metadata |-> md,
                   fks |-> [c \in FkColumns |-> NULL],
                   updated_at |-> 0, last_edited_at |-> e[1], edited_by_name |-> e[2]] :
                     md \in AttrStoredMetadata,
                     e \in {<<NULL, <<>>>>, <<0, <<"b">>>>}}
    /\ a_now = 1
    /\ a_log = <<>>

attrIdle == <<orchVars, uuidVars, mergeVars, raceVars, concVars, parseVars, structVars,
              datasetVars>>

DataOf(row) == [name |-> row.name, metadata |-> row.metadata, fks |-> row.fks]

\* a later transaction begins: NOW() is the start of the transaction
BeginLater ==
    /\ a_now < MaxClock
    /\ a_now' = a_now + 1
    /\ UNCHANGED <<a_row, a_log, attrIdle>>

\* _upsert_entity(conn, entity_dict, main_table, user_info) on the stored
\* row: ON CONFLICT (uuid) DO UPDATE SET ...
UpsertStored ==
    /\ \E user_info \in UserInfos, entity \in AttrEntities :
         LET cols == StatementColumns(entity)
             r == _upsert_entity((AttrUuid :> DataOf(a_row)), entity)
             unlocked == any_unlocked_sql(a_row.metadata, cols)
             after ==
                 r.main[AttrUuid] @@
                 [updated_at |-> a_now,
                  last_edited_at |->
                      IF UserInfoTruthy(user_info) /\ unlocked
                      THEN a_now ELSE a_row.last_edited_at,
                  edited_by_name |->
                      IF UserInfoTruthy(user_info) /\ "name" \in DOMAIN user_info.fields
                            /\ unlocked
                      THEN <<LiteralValue(EscapeQuotes(user_info.fields["name"]))>>
                      ELSE a_row.edited_by_name]
         IN  /\ a_row' = IF r.ok THEN after ELSE a_row
             /\ a_log' = <<[ok |-> r.ok, user_info |-> user_info, cols |-> cols,
                            now |-> a_now, before |-> a_row, after |-> a_row']>>
    /\ UNCHANGED <<a_now, attrIdle>>

NextAttr == BeginLater \/ UpsertStored

SpecAttr == InitAttr /\ [][NextAttr]_vars

\* ---- C24 ----
AttributionOf(row) == <<row.last_edited_at, row.edited_by_name>>

\* C24: an upsert that hits an existing row sets the updated timestamp to
\* NOW() in every case, changes the last-edited timestamp or the editor name
\* only if attribution info is supplied and a column of the statement other
\* than the identifier is unlocked in the stored metadata, and changes
\* neither when no attribution is supplied, as in an automated import.
C24_AttributionFollowsLocks ==
    a_log # <<>> =>
        LET l == a_log[1]
        IN  /\ l.ok => l.after.updated_at = l.now
            /\ ~l.ok => l.after = l.before
            /\ AttributionOf(l.after) # AttributionOf(l.before)
                  => /\ l.user_info.given
                     /\ \E col \in l.cols :
                           lock_check_sql(l.before.metadata, col) = "false"
            /\ ~l.user_info.given => AttributionOf(l.after) = AttributionOf(l.before)
            /\ l.after.edited_by_name # l.before.edited_by_name
                  => l.after.edited_by_name = <<l.user_info.fields["name"]>>

\* a later transaction of a named user hit a row with every column of the
\* statement locked: the attribution stays, the updated timestamp moves
C24_Witness ==
    /\ a_log # <<>> /\ a_log[1].ok
    /\ "name" \in DOMAIN a_log[1].user_info.fields
    /\ \A col \in a_log[1].cols : lock_check_sql(a_log[1].before.metadata, col) = "true"
    /\ a_log[1].before.last_edited_at = 0
    /\ AttributionOf(a_log[1].after) = <<0, <<"b">>>>
    /\ a_log[1].after.updated_at > a_log[1].before.updated_at

(***************************************************************************)
(* Navigation entity structure (data_import.py)                            *)
(***************************************************************************)
\* database.config["navigation"]["order"], or a configuration whose
\* navigation section cannot be read
ConfiguredOrders ==
    {navigation_order,
     <<"accelerator", "detector">>,
     <<"detector", "accelerator">>,
     <<"accelerator", "accelerator">>,
     <<>>}

StructConfigs ==
    {[readable |-> FALSE, order |-> <<>>]}
        \cup {[readable |-> TRUE, order |-> o] : o \in ConfiguredOrders}

\* f"{entity_key}s"
ConventionalTable(entity_key) == <<entity_key, "s">>

\* get_schema_discovery / analyze_navigation_structure: it raises, or gives
\* navigation_tables
SchemaOutcomes ==
    {[ok |-> FALSE, navigation_tables |-> <<>>],
     [ok |-> TRUE, navigation_tables |-> <<>>],
     [ok |-> TRUE, navigation_tables |-> <<<<"detector", <<"detector", "_", "sets">>>>>>]}

\* named records: with accelerator and detector, with an accelerator only,
\* with no reference name
AcceleratorOnlyRecord == Rec(<<"p">>, "x", NoName, (K_status :> "A"), FALSE)
NoReferenceRecord == Rec(<<"p">>, NoName, NoName, (K_status :> "A"), FALSE)
StructRecords == {GoodRecord, AcceleratorOnlyRecord, NoReferenceRecord}

StructureEntry(entity_key, table_name) ==
    <<entity_key, [table_name |-> table_name, field_name |-> entity_key,
                   foreign_key_column |-> foreign_key_column(entity_key)]>>

\* the structure is empty whenever anything fails
EmptyOnAnyFailure(cfg, schema) ==
    IF ~cfg.readable \/ ~schema.ok THEN <<>>
    ELSE LET build[i \in 0..Len(cfg.order)] ==
                 IF i = 0 THEN <<>>
                 ELSE LET e == StructureEntry(cfg.order[i], ConventionalTable(cfg.order[i]))
                      IN  SetKey(build[i - 1], e[1], e[2])
         IN  build[Len(cfg.order)]

\* _get_navigation_entity_structure: entity_key -> {table_name, field_name,
\* foreign_key_column} in the order of the configuration; the table found
\* by the schema analysis, else the conventional plural; the convention
\* alone when the analysis raises; empty when the order cannot be read
_get_navigation_entity_structure(cfg, schema) ==
    IF ~cfg.readable THEN <<>>
    ELSE LET table(entity_key) ==
                 IF schema.ok /\ HasKey(schema.navigation_tables, entity_key)
                 THEN Lookup(schema.navigation_tables, entity_key)
                 ELSE ConventionalTable(entity_key)
             build[i \in 0..Len(cfg.order)] ==
                 IF i = 0 THEN <<>>
                 ELSE LET e == StructureEntry(cfg.order[i], table(cfg.order[i]))
                      IN  SetKey(build[i - 1], e[1], e[2])
         IN  build[Len(cfg.order)]

\* _preprocess_batch_navigation_entities for a chunk of one record:
\* [cache, refs, next_id, calls]
preprocess_with(entity_structure, dataset_data, refs, nid) ==
    LET step[i \in 0..Len(entity_structure)] ==
            IF i = 0 THEN [cache |-> <<>>, refs |-> refs, next_id |-> nid, calls |-> 0]
            ELSE LET p == step[i - 1]
                     key == entity_structure[i][1]
                     info == entity_structure[i][2]
                     nm == entity_name(dataset_data, info.field_name)
                     g == _get_or_create_entity(p.refs, p.next_id, info.table_name,
                                                nm, NULL)
                 IN  IF nm = NoName THEN p
                     ELSE [cache |-> SetKey(p.cache, key, <<<<nm, g.id>>>>),
                           refs |-> g.refs, next_id |-> g.next_id,
                           calls |-> p.calls + 1]
    IN  step[Len(entity_structure)]

\* _create_navigation_entities with no failure: [fks, refs, next_id, calls]
create_navigation_with(entity_structure, dataset_data, refs, nid) ==
    LET step[i \in 0..Len(entity_structure)] ==
            IF i = 0
            THEN [fks |-> [k \in 1..Len(entity_structure) |->
                              <<entity_structure[k][2].foreign_key_column, NULL>>],
                  refs |-> refs, next_id |-> nid, calls |-> 0]
            ELSE LET p == step[i - 1]
                     key == entity_structure[i][1]
                     info == entity_structure[i][2]
                     nm == entity_name(dataset_data, info.field_name)
                     acc == Lookup(p.fks, "accelerator_id")
                     g == _get_or_create_entity(p.refs, p.next_id, info.table_name, nm,
                              IF key = "detector" /\ acc # NULL /\ acc # 0
                              THEN acc ELSE NULL)
                 IN  IF nm = NoName THEN p
                     ELSE [fks |-> SetKey(p.fks, info.foreign_key_column, g.id),
                           refs |-> g.refs, next_id |-> g.next_id,
                           calls |-> p.calls + 1]
    IN  step[Len(entity_structure)]

\* what a path gave for the record: the foreign keys handed to
\* _create_main_entity, the identifier, the row and the reference calls
PathResult(dataset_data, fks, calls) ==
    LET name == dataset_data.process_name
        r == _create_main_entity(EmptyDb.main, name, get_all_metadata(dataset_data), fks)
        uuid == generate_dataset_uuid(name, fks)
    IN  [fks |-> fks, uuid |-> uuid, upserted |-> r.ok,
         row |-> IF r.ok THEN <<r.main[uuid]>> ELSE <<>>, calls |-> calls]

InitStruct ==
    /\ NoOrch /\ NoUuid /\ NoMerge /\ NoRace /\ NoConc /\ NoParse /\ NoAttr
    /\ NoDataset
    /\ n_in \in [config : StructConfigs, schema : SchemaOutcomes, record : StructRecords]
    /\ n_out = [batch |-> <<>>, indiv |-> <<>>]

structIdle == <<orchVars, uuidVars, mergeVars, raceVars, concVars, parseVars, attrVars,
                datasetVars>>

\* _process_batch_all_or_nothing on the chunk of the record, on empty tables
ProcessInBatch ==
    /\ n_out.batch = <<>>
    /\ LET entity_structure == _get_navigation_entity_structure(n_in.config, n_in.schema)
           p == preprocess_with(entity_structure, n_in.record, EmptyDb.refs, 1)
           fks == _get_foreign_key_ids_from_cache(n_in.record, p.cache)
       IN  n_out' = [n_out EXCEPT !.batch = <<PathResult(n_in.record, fks, p.calls)>>]
    /\ UNCHANGED <<n_in, structIdle>>

\* _process_batch_individually on the record, on empty tables
ProcessIndividually ==
    /\ n_out.indiv = <<>>
    /\ LET entity_structure == _get_navigation_entity_structure(n_in.config, n_in.schema)
           c == create_navigation_with(entity_structure, n_in.record, EmptyDb.refs, 1)
       IN  n_out' = [n_out EXCEPT !.indiv = <<PathResult(n_in.record, c.fks, c.calls)>>]
    /\ UNCHANGED <<n_in, structIdle>>

NextStruct == ProcessInBatch \/ ProcessIndividually

SpecStruct == InitStruct /\ [][NextStruct]_vars

\* ---- C25 ----
\* the configured categories, each once, in the order they are first named
RECURSIVE FirstOccurrences(_)
FirstOccurrences(order) ==
    IF order = <<>> THEN <<>>
    ELSE LET front == FirstOccurrences(SubSeq(order, 1, Len(order) - 1))
             last == order[Len(order)]
         IN  IF \E i \in 1..Len(front) : front[i] = last THEN front
             ELSE Append(front, last)

NothingResolved(result) ==
    /\ result.calls = 0
    /\ result.upserted
    /\ \A i \in 1..Len(result.fks) : result.fks[i][2] = NULL
    /\ \A c \in FkColumns : result.row[1].fks[c] = NULL

\* C25: when the schema analysis fails the structure has one entry per
\* configured category, in configured order, with the table named category
\* + "s"; when the configuration cannot be read the structure is empty, no
\* reference is resolved and the record is still upserted, on both paths,
\* with no resolved foreign key.
C25_StructureDegradation ==
    LET entity_structure == _get_navigation_entity_structure(n_in.config, n_in.schema)
        categories == FirstOccurrences(n_in.config.order)
    IN  /\ (n_in.config.readable /\ ~n_in.schema.ok)
              => /\ Len(entity_structure) = Len(categories)
                 /\ \A i \in 1..Len(categories) :
                       /\ entity_structure[i][1] = categories[i]
                       /\ entity_structure[i][2].table_name = <<categories[i], "s">>
        /\ ~n_in.config.readable
              => /\ entity_structure = <<>>
                 /\ n_out.batch # <<>> => NothingResolved(n_out.batch[1])
                 /\ n_out.indiv # <<>> => NothingResolved(n_out.indiv[1])

\* a record naming an accelerator and a detector went through both paths
\* with the configuration unreadable
C25_Witness ==
    /\ ~n_in.config.readable
    /\ n_in.record = GoodRecord
    /\ n_out.batch # <<>> /\ n_out.indiv # <<>>
    /\ n_out.batch[1].upserted /\ n_out.indiv[1].upserted

\* the schema analysis failed under a configuration naming a category twice
C25_WitnessConvention ==
    /\ n_in.config.readable /\ ~n_in.schema.ok
    /\ n_in.config.order = <<"accelerator", "accelerator">>
    /\ n_out.batch # <<>>

\* ---- C26 ----
ImportOver == pc \in {"validate", "done", "raised"}

\* C26: when all chunks are done the totals count every record of the
\* collection exactly once: processed + failed = N.
C26_ExactAccounting ==
    ImportOver => total_processed + total_failed = Len(collection)

\* What the code gives instead: a record whose commit fails in the
\* individual pass is counted as processed and as failed, so the totals
\* exceed N by at most the number of failures.
C26_AccountingWithinFaults ==
    ImportOver =>
        /\ total_processed + total_failed >= Len(collection)
        /\ total_processed + total_failed <= Len(collection) + faults

\* ---- C27 ----
\* the records of the collection whose row is in the committed main table
PersistedRecords ==
    {i \in 1..Len(collection) :
        \E u \in DOMAIN db.main : db.main[u].name = collection[i].process_name}

\* C27: at the end of the import the number of records counted as processed
\* does not exceed the number of records whose row is persisted.
C27_ProcessedMeansCommitted ==
    ImportOver => total_processed <= Cardinality(PersistedRecords)

\* What the code gives instead: the count exceeds the persisted records by
\* at most the number of failures.
C27_ProcessedWithinFaults ==
    ImportOver => total_processed <= Cardinality(PersistedRecords) + faults

\* ---- C28 ----
BothPathsDone == n_out.batch # <<>> /\ n_out.indiv # <<>>

PairsOf(fks) == {fks[i] : i \in 1..Len(fks)}

\* C28: for every record and every navigation structure the batch path and
\* the individual path build the same foreign-key columns with the same
\* values, derive the same identifier and write the same row.
C28_PathsAgree ==
    BothPathsDone =>
        /\ PairsOf(n_out.batch[1].fks) = PairsOf(n_out.indiv[1].fks)
        /\ n_out.batch[1].uuid = n_out.indiv[1].uuid
        /\ n_out.batch[1].row = n_out.indiv[1].row

\* What the code gives instead: the paths agree when the structure holds
\* exactly the five categories the batch path writes out.
C28_PathsAgreeOnFiveCategories ==
    (BothPathsDone /\ n_in.config.readable
        /\ {n_in.config.order[i] : i \in 1..Len(n_in.config.order)}
              = {navigation_order[i] : i \in 1..Len(navigation_order)})
        => /\ PairsOf(n_out.batch[1].fks) = PairsOf(n_out.indiv[1].fks)
           /\ n_out.batch[1].uuid = n_out.indiv[1].uuid
           /\ n_out.batch[1].row = n_out.indiv[1].row

\* ---- C29 ----
BatchPositions == {"batch_pre", "batch_rec", "batch_commit"}

\* C29: the navigation cache exists only inside a batch attempt's
\* transaction, and every non-null foreign key of a committed main row names
\* a committed reference row, whatever chunks, failures and fallbacks came
\* before.
C29_CommittedKeysNameCommittedRows ==
    /\ pc \notin BatchPositions => navigation_cache = <<>>
    /\ \A u \in DOMAIN db.main : ForeignKeysVisible(db.main[u], db.refs)

\* a fallback committed a row with an accelerator after the batch attempt
\* that created an earlier accelerator identifier was rolled back
C29_Witness ==
    /\ pc = "chunk_end" /\ hist.chunk.fallback
    /\ \E u \in DOMAIN db.main :
          /\ db.main[u].fks["accelerator_id"] # NULL
          /\ \E k \in 1..(db.main[u].fks["accelerator_id"] - 1) :
                \A r \in db.refs : r.id # k

(***************************************************************************)
(* Termination of the import                                               *)
(***************************************************************************)
\* The import is one coroutine.  The steps of import_data and of the chunk
\* loop await nothing: a possible one is eventually taken.
ControlSteps ==
    \/ StartImport \/ BeginChunk \/ LoopDone \/ BatchKept \/ FallBack
    \/ EndChunk \/ ValidateRaises \/ ImportCompletes

\* the positions at which the coroutine awaits the database
AwaitingPositions ==
    {"batch_open", "batch_pre", "batch_rec", "batch_commit",
     "indiv_open", "indiv_resolve", "indiv_upsert", "indiv_commit"}

\* An awaited call returns or raises, so the coroutine does not stay at an
\* awaiting position without taking steps: weak fairness of the steps of
\* these positions, each of which is possible whenever its position is
\* reached, written with the position in place of ENABLED.
SpecScopedLive ==
    /\ InitScoped /\ [][NextScoped]_vars
    /\ WF_vars(ControlSteps)
    /\ ([]<>(pc \notin AwaitingPositions) \/ []<><<NextScoped>>_vars)

\* ---- C30 ----
NoRepeat(seq) == \A i, j \in 1..Len(seq) : seq[i] = seq[j] => i = j

\* the records of a chunk are attempted at most once in the batch attempt
\* and at most once in the individual pass, which follows a batch attempt
AttemptedAtMostTwice(c) ==
    /\ NoRepeat(c.batch_tried) /\ NoRepeat(c.tried)
    /\ \A i \in 1..Len(c.batch_tried) : c.batch_tried[i] \in 1..c.n
    /\ \A i \in 1..Len(c.tried) : c.tried[i] \in 1..c.n
    /\ c.tried # <<>> => c.fallback

\* the chunks taken so far are the consecutive slices of the collection
ChunksInOrder ==
    /\ \A i \in 1..Len(hist.chunks) :
          /\ hist.chunks[i].start = (i - 1) * batch_size
          /\ hist.chunks[i].n = Min(batch_size, Len(collection) - hist.chunks[i].start)
          /\ hist.chunks[i].n >= 1
          /\ AttemptedAtMostTwice(hist.chunks[i])
    /\ hist.chunk # <<>> => AttemptedAtMostTwice(hist.chunk)
    /\ Len(hist.chunks) <= ChunkCount
    /\ ImportOver => Len(hist.chunks) = ChunkCount

\* C30: the import terminates; the chunks are the consecutive slices of the
\* collection, taken in order and each once, so that a record belongs to
\* exactly one chunk, and a record is attempted at most once in its chunk's
\* batch attempt and at most once in the individual pass.
C30_BoundedRetryAndTermination ==
    /\ []ChunksInOrder
    /\ <>(pc \in {"done", "raised"})

\* an import of two chunks ended, the first chunk after a fallback in which
\* its record was attempted a second time
C30_Witness ==
    /\ pc \in {"done", "raised"}
    /\ Len(hist.chunks) = 2 /\ Len(collection) = 2
    /\ hist.chunks[1].fallback
    /\ hist.chunks[1].batch_tried = <<1>> /\ hist.chunks[1].tried = <<1>>

(***************************************************************************)
(* Specification SpecDataset: one JSON record through FccDataset           *)
(* (json_data_parser.py): validation, then get_all_metadata                *)
(***************************************************************************)
MaxFields == 2

\* JSON values as json.loads gives them: None, a str (its characters), an
\* int, a list
PyValue(t, s, n) == [t |-> t, s |-> s, n |-> n]
None == PyValue("null", <<>>, 0)
PyStr(s) == PyValue("str", s, 0)
PyInt(n) == PyValue("int", <<>>, n)
EmptyList == PyValue("list", <<>>, 0)

Whitespace == {" "}
Digits == {"0", "1", "2", "3", "4", "5", "6", "7", "8", "9"}

\* s.strip()
RECURSIVE lstrip(_)
lstrip(s) == IF s # <<>> /\ s[1] \in Whitespace THEN lstrip(Tail(s)) ELSE s

RECURSIVE rstrip(_)
rstrip(s) ==
    IF s # <<>> /\ s[Len(s)] \in Whitespace THEN rstrip(SubSeq(s, 1, Len(s) - 1)) ELSE s

strip(s) == rstrip(lstrip(s))

\* re.sub(r"\s+", " ", s): every run of whitespace becomes one space
RECURSIVE collapse_whitespace(_)
collapse_whitespace(s) ==
    IF s = <<>> THEN <<>>
    ELSE IF s[1] \in Whitespace
         THEN <<" ">> \o collapse_whitespace(lstrip(s))
         ELSE <<s[1]>> \o collapse_whitespace(Tail(s))

\* str(v) of a value that is no str
str(v) ==
    CASE v.t = "int" -> Dec(v.n)
      [] v.t = "list" -> <<"[", "]">>
      [] v.t = "null" -> <<"N", "o", "n", "e">>
      [] v.t = "str" -> v.s

DigitValue(c) == CHOOSE d \in 0..9 : Digit(d) = c

RECURSIVE DecimalValue(_)
DecimalValue(s) ==
    IF s = <<>> THEN 0 ELSE 10 * DecimalValue(SubSeq(s, 1, Len(s) - 1)) + DigitValue(s[Len(s)])

\* int(v): the int, or None where int() raises ValueError or TypeError
int(v) ==
    CASE v.t = "int" -> v
      [] v.t = "str" ->
             LET s == strip(v.s)
             IN  IF s # <<>> /\ \A i \in 1..Len(s) : s[i] \in Digits
                 THEN PyInt(DecimalValue(s)) ELSE None
      [] OTHER -> None

\* the before-validator of the str fields
handle_string_fields(v) ==
    IF v = None \/ v = PyStr(<<>>) \/ (v.t = "str" /\ strip(v.s) = <<>>) THEN None
    ELSE IF v.t = "str"
         THEN LET normalized == collapse_whitespace(strip(v.s))
              IN  IF normalized # <<>> THEN PyStr(normalized) ELSE None
         ELSE PyStr(str(v))

\* the before-validator of n_events and size
handle_int_fields(v) ==
    IF v = None \/ v = PyStr(<<>>) THEN None ELSE int(v)

\* the before-validator of path
handle_path_field(v) ==
    IF v = None \/ v = PyStr(<<>>) \/ (v.t = "str" /\ strip(v.s) = <<>>) THEN None
    ELSE PyStr(strip(str(v)))

K_process_name == <<"process-name">>
K_n_events == <<"n-events">>
K_path == <<"path">>
K_description == <<"description">>
K_accelerator == <<"accelerator">>
K_stage == <<"stage">>
K_campaign == <<"campaign">>
K_detector == <<"detector">>
K_file_type == <<"file-type">>
K_files == <<"files">>

core_fields ==
    {K_process_name, K_n_events, K_path, K_size, K_description, K_comment,
     K_status, K_accelerator, K_stage, K_campaign, K_detector, K_file_type}

\* the model validator, mode "before": raw_metadata of the record
extract_metadata(data) == Restrict(data, (DOMAIN data \ core_fields) \ {K_files})

\* the value validation reads under an alias; a missing key gives the default
Aliased(data, alias) == IF alias \in DOMAIN data THEN data[alias] ELSE None

\* FccDataset(**data): the model validator, then each field's validator
FccDataset(data) ==
    [process_name |-> handle_string_fields(Aliased(data, K_process_name)),
     n_events |-> handle_int_fields(Aliased(data, K_n_events)),
     path |-> handle_path_field(Aliased(data, K_path)),
     size |-> handle_int_fields(Aliased(data, K_size)),
     description |-> handle_string_fields(Aliased(data, K_description)),
     comment |-> handle_string_fields(Aliased(data, K_comment)),
     status |-> handle_string_fields(Aliased(data, K_status)),
     accelerator |-> handle_string_fields(Aliased(data, K_accelerator)),
     stage |-> handle_string_fields(Aliased(data, K_stage)),
     campaign |-> handle_string_fields(Aliased(data, K_campaign)),
     detector |-> handle_string_fields(Aliased(data, K_detector)),
     file_type |-> handle_string_fields(Aliased(data, K_file_type)),
     raw_metadata |-> extract_metadata(data)]

\* metadata[key] = value when value is not None
SetIfNotNone(key, value) == IF value # None THEN (key :> value) ELSE <<>>

\* FccDataset.get_all_metadata: metadata.update(raw_metadata) comes last
FccDataset_get_all_metadata(self) ==
    self.raw_metadata
        @@ SetIfNotNone(K_n_events, self.n_events)
        @@ SetIfNotNone(K_path, self.path)
        @@ SetIfNotNone(K_size, self.size)
        @@ SetIfNotNone(K_description, self.description)
        @@ SetIfNotNone(K_comment, self.comment)
        @@ SetIfNotNone(K_status, self.status)

\* the keys and values of the records tried: core keys of each validator,
\* navigation keys, "files", a key outside the model and the name of a field
\* that is read under another alias
RecordKeys ==
    {K_process_name, K_n_events, K_path, K_status, K_accelerator, K_file_type,
     K_files, K_note, <<"process_name">>}

RecordValues ==
    {None, PyStr(<<>>), PyStr(<<" ">>), PyStr(<<" ", "A", " ", " ", "b">>), PyStr(<<"5", " ">>),
     PyInt(7), EmptyList}

JsonRecords ==
    UNION {[keys -> RecordValues] :
              keys \in {ks \in SUBSET RecordKeys : Cardinality(ks) <= MaxFields}}

InitDataset ==
    /\ NoOrch /\ NoUuid /\ NoMerge /\ NoRace /\ NoConc /\ NoParse /\ NoAttr /\ NoStruct
    /\ f_data \in JsonRecords
    /\ f_self = <<>>
    /\ f_metadata = <<>>

datasetIdle == <<orchVars, uuidVars, mergeVars, raceVars, concVars, parseVars, attrVars,
                 structVars>>

\* DatasetCollection validates the record
Validate ==
    /\ f_self = <<>>
    /\ f_self' = <<FccDataset(f_data)>>
    /\ UNCHANGED <<f_data, f_metadata, datasetIdle>>

\* dataset_data.get_all_metadata()
GetAllMetadata ==
    /\ f_self # <<>> /\ f_metadata = <<>>
    /\ f_metadata' = <<FccDataset_get_all_metadata(f_self[1])>>
    /\ UNCHANGED <<f_data, f_self, datasetIdle>>

NextDataset == Validate \/ GetAllMetadata

SpecDataset == InitDataset /\ [][NextDataset]_vars

\* ---- C31 ----
NavigationKeys == {K_accelerator, K_stage, K_campaign, K_detector, K_file_type}

MetadataReturned == f_metadata # <<>>

\* C31: the mapping get_all_metadata returns for a record holds no None
\* value, no entry under the logical name (process-name) and no entry under a
\* navigation field, whatever the record holds, null extra fields included.
C31_MetadataClean ==
    MetadataReturned =>
        /\ \A k \in DOMAIN f_metadata[1] : f_metadata[1][k] # None
        /\ K_process_name \notin DOMAIN f_metadata[1]
        /\ DOMAIN f_metadata[1] \cap NavigationKeys = {}

\* What the code gives instead: no entry under the logical name or a
\* navigation field, no None under a core key, and every key of the record
\* outside the core fields and "files" with the value the record holds, None
\* where the record holds null.
C31_MetadataCleanButExtras ==
    MetadataReturned =>
        /\ K_process_name \notin DOMAIN f_metadata[1]
        /\ DOMAIN f_metadata[1] \cap NavigationKeys = {}
        /\ \A k \in DOMAIN f_metadata[1] \cap core_fields : f_metadata[1][k] # None
        /\ \A k \in DOMAIN f_data \ (core_fields \cup {K_files}) :
               HasValue(f_metadata[1], k, f_data[k])
        /\ DOMAIN f_metadata[1] \subseteq DOMAIN f_data \ {K_files}

\* the record {"process-name": " A  b", "note": null} gave {"note": None}
C31_NullExtraReturned ==
    /\ MetadataReturned
    /\ HasValue(f_data, K_note, None)
    /\ K_process_name \in DOMAIN f_data
    /\ f_self[1].process_name = PyStr(<<"A", " ", "b">>)
    /\ f_metadata[1] = (K_note :> None)
====
